---- MODULE Spec2Model ----
(***************************************************************************)
(* Track registry, activity classifier and anomaly rule engine of the      *)
(* video anomaly detection pipeline                                        *)
(* (detector.py, activity_classifier.py, anomaly_detector.py).             *)
(*                                                                         *)
(* Number representation.  The code works on floats; the model works on    *)
(* exact integers:                                                         *)
(*  - box coordinates are integers (pixels);                               *)
(*  - a center ((x1+x2)/2, (y1+y2)/2) is kept as <<x1+x2, y1+y2>>, i.e. in *)
(*    half-pixel units, and so is every difference of centers (velocity);  *)
(*  - a norm is compared through its square: norm(v) < t  iff              *)
(*    NormSq(v) < (2*t)^2 for v in half-pixel units;                       *)
(*  - an IoU is the exact fraction <<intersection, union>>, 0.0 being      *)
(*    <<0, 1>>;                                                            *)
(*  - times are whole seconds.                                             *)
(***************************************************************************)
EXTENDS Integers, Sequences, FiniteSets, TLC

VARIABLES
    \* ObjectTracker (detector.py)
    tracks,         \* self.tracks: track_id -> track record
    next_id,        \* self.next_id
    ret,            \* the list returned by the last update call
    last_dets,      \* the detections given to the last update call
    last_pairs,     \* <<detection index, track id>> pairs accepted by the last call
    assigned,       \* history: the ids handed out by _create_track, in order, each
                    \* with the ids that had been deleted before its call
    removed,        \* history: the ids deleted by _cleanup_tracks
    nmatch,         \* history: live id -> number of update calls that matched it
    idle,           \* history: id -> consecutive update calls without a match
    trail,          \* history: live id -> every center given to the track, the
                    \* creation center first, in order of arrival
    updates,        \* history: the update calls made, where a run counts them
    \* _calculate_iou on its own
    bbox1, bbox2,   \* the two boxes given to _calculate_iou
    iou,            \* <<>>, then <<IoU(bbox1, bbox2), IoU(bbox2, bbox1)>>
    \* ActivityClassifier (activity_classifier.py)
    activity_history,   \* self.activity_history: track_id -> labels, oldest first
    position_history,   \* self.position_history: track_id -> centers, oldest first
    cls_tracks,     \* the tracks given to the last classify call, as it left them
    activities,     \* the dictionary returned by the last classify call
    traj,           \* the trajectory track 1 follows while it is walked
    walked,         \* number of frames of the trajectory classified so far
    free_calls,     \* number of classify calls made with an arbitrary frame
    unit_run,       \* history: id -> number of consecutive classify calls, up to
                    \* the last one, that held this track alone at speed 1.0
    \* AnomalyDetector (anomaly_detector.py)
    anomalies,      \* self.anomalies: every record emitted so far
    track_states,   \* self.track_states: track_id -> state record
    velocity_history,   \* self.velocity_history: track_id -> velocities, oldest first
    det_tracks,     \* the tracks given to the last detect call, as it left them
    det_activities, \* the activities given to the last detect call
    frame_number,   \* the frame_number given to the last detect call
    timestamp,      \* the timestamp given to the last detect call
    now,            \* what time.time() read during the last detect call
    period,         \* seconds from one frame to the next
    frame_anomalies,    \* the list returned by the last detect call
    stopped_wall    \* history: id -> what time.time() read during the call that
                    \* set the stopped_since the id has now

trk_vars == <<tracks, next_id, ret, last_dets, last_pairs, assigned, removed, nmatch, idle,
              trail, updates>>
iou_vars == <<bbox1, bbox2, iou>>
cls_vars == <<activity_history, position_history, cls_tracks, activities,
              traj, walked, free_calls, unit_run>>
det_vars == <<anomalies, track_states, velocity_history, det_tracks, det_activities,
              frame_number, timestamp, now, period, frame_anomalies, stopped_wall>>
vars == <<trk_vars, iou_vars, cls_vars, det_vars>>

Max(a, b) == IF a >= b THEN a ELSE b
Min(a, b) == IF a <= b THEN a ELSE b

NormSq(v) == v[1] * v[1] + v[2] * v[2]

RECURSIVE Ascending(_)
\* The elements of a finite set of integers as an ascending sequence.
Ascending(S) ==
    IF S = {} THEN <<>>
    ELSE LET m == CHOOSE x \in S : \A y \in S : x <= y
         IN  <<m>> \o Ascending(S \ {m})

(***************************************************************************)
(* Geometry (detector.py)                                                  *)
(***************************************************************************)

\* ObjectTracker._bbox_center, in half-pixel units.
_bbox_center(bbox) == <<bbox[1] + bbox[3], bbox[2] + bbox[4]>>

\* Mutant: the union computed without removing the doubly counted overlap.
_calculate_iou_no_overlap(b1, b2) ==
    LET x1_i == Max(b1[1], b2[1])
        y1_i == Max(b1[2], b2[2])
        x2_i == Min(b1[3], b2[3])
        y2_i == Min(b1[4], b2[4])
    IN  IF x2_i < x1_i \/ y2_i < y1_i THEN <<0, 1>>
        ELSE LET intersection == (x2_i - x1_i) * (y2_i - y1_i)
                 area1 == (b1[3] - b1[1]) * (b1[4] - b1[2])
                 area2 == (b2[3] - b2[1]) * (b2[4] - b2[2])
                 union == area1 + area2
             IN  IF union > 0 THEN <<intersection, union>> ELSE <<0, 1>>

\* ObjectTracker._calculate_iou: the fraction <<intersection, union>>.
_calculate_iou(b1, b2) ==
    LET x1_i == Max(b1[1], b2[1])
        y1_i == Max(b1[2], b2[2])
        x2_i == Min(b1[3], b2[3])
        y2_i == Min(b1[4], b2[4])
    IN  IF x2_i < x1_i \/ y2_i < y1_i THEN <<0, 1>>
        ELSE LET intersection == (x2_i - x1_i) * (y2_i - y1_i)
                 area1 == (b1[3] - b1[1]) * (b1[4] - b1[2])
                 area2 == (b2[3] - b2[1]) * (b2[4] - b2[2])
                 union == area1 + area2 - intersection
             IN  IF union > 0 THEN <<intersection, union>> ELSE <<0, 1>>

(***************************************************************************)
(* ObjectTracker (detector.py)                                             *)
(***************************************************************************)

\* self.max_age
max_age == 30
\* the max_history default of ObjectTracker.__init__
max_history == 30
\* the number of hits from which _get_active_tracks returns a track
min_hits == 3

\* Mutant: a full deque refuses the new element.
deque_append_keep_old(dq, x, cap) ==
    IF Len(dq) >= cap THEN dq ELSE Append(dq, x)

\* deque.append on a deque(maxlen = cap): the oldest element is evicted first.
deque_append(dq, x, cap) ==
    IF Len(dq) >= cap THEN Tail(dq) \o <<x>> ELSE Append(dq, x)

\* The keys of self.tracks in iteration order.  A dict iterates in insertion
\* order and ids are inserted in increasing order, so this is ascending id.
track_ids_of(trs) == Ascending(DOMAIN trs)

\* Mutant: the id taken from the number of live tracks instead of the counter.
_create_track_by_count(st, detection) ==
    LET track_id == Cardinality(DOMAIN st.tracks) + 1
        t == [id |-> track_id,
              bbox |-> detection.bbox,
              class_id |-> detection.class_id,
              confidence |-> detection.confidence,
              history |-> <<_bbox_center(detection.bbox)>>,
              age |-> 0,
              hits |-> 1,
              velocity |-> <<0, 0>>]
    IN  [tracks |-> [k \in DOMAIN st.tracks \cup {track_id} |->
                        IF k = track_id THEN t ELSE st.tracks[k]],
         next_id |-> st.next_id + 1,
         created |-> Append(st.created, track_id)]

\* ObjectTracker._create_track on the registry state st = [tracks, next_id,
\* created]; created lists the ids handed out during the current call.
_create_track(st, detection) ==
    LET track_id == st.next_id
        t == [id |-> track_id,
              bbox |-> detection.bbox,
              class_id |-> detection.class_id,
              confidence |-> detection.confidence,
              history |-> <<_bbox_center(detection.bbox)>>,
              age |-> 0,
              hits |-> 1,
              velocity |-> <<0, 0>>]
    IN  [tracks |-> [k \in DOMAIN st.tracks \cup {track_id} |->
                        IF k = track_id THEN t ELSE st.tracks[k]],
         next_id |-> st.next_id + 1,
         created |-> Append(st.created, track_id)]

\* Mutant: the displacement is added to the velocity the track had.
_update_track_summed_velocity(track, detection) ==
    LET old_center == _bbox_center(track.bbox)
        new_center == _bbox_center(detection.bbox)
    IN  [track EXCEPT !.bbox = detection.bbox,
                      !.confidence = detection.confidence,
                      !.history = deque_append(track.history, new_center, max_history),
                      !.age = 0,
                      !.hits = track.hits + 1,
                      !.velocity = <<track.velocity[1] + new_center[1] - old_center[1],
                                     track.velocity[2] + new_center[2] - old_center[2]>>]

\* Mutant: a match leaves the age as it was.
_update_track_keeps_age(track, detection) ==
    LET old_center == _bbox_center(track.bbox)
        new_center == _bbox_center(detection.bbox)
    IN  [track EXCEPT !.bbox = detection.bbox,
                      !.confidence = detection.confidence,
                      !.history = deque_append(track.history, new_center, max_history),
                      !.hits = track.hits + 1,
                      !.velocity = <<new_center[1] - old_center[1],
                                     new_center[2] - old_center[2]>>]

\* Mutant: a match counted twice.
_update_track_double_hit(track, detection) ==
    LET old_center == _bbox_center(track.bbox)
        new_center == _bbox_center(detection.bbox)
    IN  [track EXCEPT !.bbox = detection.bbox,
                      !.confidence = detection.confidence,
                      !.history = deque_append(track.history, new_center, max_history),
                      !.age = 0,
                      !.hits = track.hits + 2,
                      !.velocity = <<new_center[1] - old_center[1],
                                     new_center[2] - old_center[2]>>]

\* ObjectTracker._update_track: the track record after a match.
_update_track(track, detection) ==
    LET old_center == _bbox_center(track.bbox)
        new_center == _bbox_center(detection.bbox)
    IN  [track EXCEPT !.bbox = detection.bbox,
                      !.confidence = detection.confidence,
                      !.history = deque_append(track.history, new_center, max_history),
                      !.age = 0,
                      !.hits = track.hits + 1,
                      !.velocity = <<new_center[1] - old_center[1],
                                     new_center[2] - old_center[2]>>]

\* cost < 0.7 for cost = 1 - IoU, i.e. IoU > 3/10.
cost_below_threshold(f) == 10 * f[1] > 3 * f[2]

\* cost(f) < cost(g) for cost = 1 - IoU, i.e. IoU(f) > IoU(g).
cost_less(f, g) == f[1] * g[2] > g[1] * f[2]

\* Mutant: among equal costs the higher detection index comes first.
sorts_before_last_detection(cm, p, q) ==
    \/ cost_less(cm[p], cm[q])
    \/ /\ ~cost_less(cm[q], cm[p])
       /\ \/ p[1] > q[1]
          \/ p[1] = q[1] /\ p[2] < q[2]

\* The order flat_costs.sort() puts two (cost, det_idx, track_idx) tuples in.
sorts_before(cm, p, q) ==
    \/ cost_less(cm[p], cm[q])
    \/ /\ ~cost_less(cm[q], cm[p])
       /\ \/ p[1] < q[1]
          \/ p[1] = q[1] /\ p[2] < q[2]

RECURSIVE sort_costs(_, _)
\* flat_costs after sort(): the <<det_idx, track_idx>> pairs, cheapest first.
sort_costs(cm, S) ==
    IF S = {} THEN <<>>
    ELSE LET m == CHOOSE p \in S : \A q \in S \ {p} : sorts_before(cm, p, q)
         IN  <<m>> \o sort_costs(cm, S \ {m})

RECURSIVE accept_pairs_any_track(_, _, _, _)
\* Mutant: the walk skips consumed detections but not consumed tracks.
accept_pairs_any_track(cm, flat_costs, k, acc) ==
    IF k > Len(flat_costs) THEN acc
    ELSE LET p == flat_costs[k]
         IN  IF \/ \E a \in acc : a[1] = p[1]
                \/ ~cost_below_threshold(cm[p])
             THEN accept_pairs_any_track(cm, flat_costs, k + 1, acc)
             ELSE accept_pairs_any_track(cm, flat_costs, k + 1, acc \cup {p})

RECURSIVE accept_pairs(_, _, _, _)
\* The greedy walk over the sorted costs (lines 95-102): the accepted pairs.
accept_pairs(cm, flat_costs, k, acc) ==
    IF k > Len(flat_costs) THEN acc
    ELSE LET p == flat_costs[k]
         IN  IF \/ \E a \in acc : a[1] = p[1] \/ a[2] = p[2]
                \/ ~cost_below_threshold(cm[p])
             THEN accept_pairs(cm, flat_costs, k + 1, acc)
             ELSE accept_pairs(cm, flat_costs, k + 1, acc \cup {p})

RECURSIVE create_unmatched(_, _, _, _)
\* Lines 105-107: a new track for every detection left unmatched, in order.
create_unmatched(st, detections, i, matched_detections) ==
    IF i > Len(detections) THEN st
    ELSE create_unmatched(
            IF i \in matched_detections THEN st ELSE _create_track(st, detections[i]),
            detections, i + 1, matched_detections)

\* Mutant: with no detection the call returns before the tracks are aged.
_associate_detections_no_aging(st, detections) ==
    IF Len(detections) = 0
    THEN [st |-> st, pairs |-> {}]
    ELSE
    LET track_ids == track_ids_of(st.tracks)
        idx == (1 .. Len(detections)) \X (1 .. Len(track_ids))
        cost_matrix == [p \in idx |->
                          _calculate_iou(detections[p[1]].bbox,
                                         st.tracks[track_ids[p[2]]].bbox)]
        accepted == accept_pairs(cost_matrix, sort_costs(cost_matrix, idx), 1, {})
        matched_detections == {p[1] : p \in accepted}
        matched_tracks == {p[2] : p \in accepted}
        det_of(j) == detections[(CHOOSE p \in accepted : p[2] = j)[1]]
        updated == [k \in DOMAIN st.tracks |->
                      LET j == CHOOSE j \in 1 .. Len(track_ids) : track_ids[j] = k
                      IN  IF j \in matched_tracks
                          THEN _update_track(st.tracks[k], det_of(j))
                          ELSE st.tracks[k]]
        st1 == create_unmatched([st EXCEPT !.tracks = updated],
                                detections, 1, matched_detections)
        aged == [k \in DOMAIN st1.tracks |->
                   IF /\ k \in DOMAIN st.tracks
                      /\ (CHOOSE j \in 1 .. Len(track_ids) : track_ids[j] = k)
                            \notin matched_tracks
                   THEN [st1.tracks[k] EXCEPT !.age = st1.tracks[k].age + 1]
                   ELSE st1.tracks[k]]
    IN  [st |-> [st1 EXCEPT !.tracks = aged],
         pairs |-> {<<p[1], track_ids[p[2]]>> : p \in accepted}]

\* ObjectTracker._associate_detections.  Returns the registry state and the
\* accepted <<detection index, track id>> pairs.
_associate_detections(st, detections) ==
    IF Len(detections) = 0
    THEN [st |-> [st EXCEPT !.tracks =
                     [k \in DOMAIN st.tracks |->
                         [st.tracks[k] EXCEPT !.age = st.tracks[k].age + 1]]],
          pairs |-> {}]
    ELSE
    LET track_ids == track_ids_of(st.tracks)
        idx == (1 .. Len(detections)) \X (1 .. Len(track_ids))
        cost_matrix == [p \in idx |->
                          _calculate_iou(detections[p[1]].bbox,
                                         st.tracks[track_ids[p[2]]].bbox)]
        accepted == accept_pairs(cost_matrix, sort_costs(cost_matrix, idx), 1, {})
        matched_detections == {p[1] : p \in accepted}
        matched_tracks == {p[2] : p \in accepted}
        det_of(j) == detections[(CHOOSE p \in accepted : p[2] = j)[1]]
        updated == [k \in DOMAIN st.tracks |->
                      LET j == CHOOSE j \in 1 .. Len(track_ids) : track_ids[j] = k
                      IN  IF j \in matched_tracks
                          THEN _update_track(st.tracks[k], det_of(j))
                          ELSE st.tracks[k]]
        st1 == create_unmatched([st EXCEPT !.tracks = updated],
                                detections, 1, matched_detections)
        aged == [k \in DOMAIN st1.tracks |->
                   IF /\ k \in DOMAIN st.tracks
                      /\ (CHOOSE j \in 1 .. Len(track_ids) : track_ids[j] = k)
                            \notin matched_tracks
                   THEN [st1.tracks[k] EXCEPT !.age = st1.tracks[k].age + 1]
                   ELSE st1.tracks[k]]
    IN  [st |-> [st1 EXCEPT !.tracks = aged],
         pairs |-> {<<p[1], track_ids[p[2]]>> : p \in accepted}]

\* Mutant: a track is dropped as soon as its age reaches max_age.
_cleanup_ids_at_max_age(trs) == {k \in DOMAIN trs : trs[k].age >= max_age}

\* ObjectTracker._cleanup_tracks: the ids it deletes.
_cleanup_ids(trs) == {k \in DOMAIN trs : trs[k].age > max_age}

\* Mutant: only tracks matched by the call are returned.
_get_active_tracks_matched_now(trs) ==
    LET ids == track_ids_of(trs)
        keep == {k \in DOMAIN trs : trs[k].hits >= min_hits /\ trs[k].age = 0}
    IN  [n \in 1 .. Cardinality(keep) |-> trs[Ascending(keep)[n]]]

\* ObjectTracker._get_active_tracks: the tracks returned, in dict order.
_get_active_tracks(trs) ==
    LET ids == track_ids_of(trs)
        keep == {k \in DOMAIN trs : trs[k].hits >= min_hits}
    IN  [n \in 1 .. Cardinality(keep) |-> trs[Ascending(keep)[n]]]

RECURSIVE create_all_distinct_boxes(_, _, _)
\* Mutant: a detection whose box an earlier detection of the call has makes
\* no track.
create_all_distinct_boxes(st, detections, i) ==
    IF i > Len(detections) THEN st
    ELSE create_all_distinct_boxes(
            IF \E j \in 1 .. i - 1 : detections[j].bbox = detections[i].bbox
            THEN st ELSE _create_track(st, detections[i]),
            detections, i + 1)

RECURSIVE create_all(_, _, _)
\* Lines 35-36: one new track per detection.
create_all(st, detections, i) ==
    IF i > Len(detections) THEN st
    ELSE create_all(_create_track(st, detections[i]), detections, i + 1)

\* ObjectTracker.update up to the cleanup: association or first creation.
update_assoc(trs, nid, detections) ==
    LET st0 == [tracks |-> trs, next_id |-> nid, created |-> <<>>]
    IN  IF DOMAIN trs = {}
        THEN [st |-> create_all(st0, detections, 1), pairs |-> {}]
        ELSE _associate_detections(st0, detections)

(***************************************************************************)
(* ActivityClassifier (activity_classifier.py)                             *)
(***************************************************************************)

\* self.history_size of the classifier
cls_history_size == 30
\* self.thresholds
stopped_speed == 2
walking_speed == 5
running_speed == 8
interaction_distance == 100
erratic_changes == 3
\* window_size of _is_erratic_behavior
window_size == 5

\* norm(v) < t and norm(v) >= t for v in half-pixel units, t in pixels.
norm_below(v, t) == NormSq(v) < 4 * t * t
norm_at_least(v, t) == NormSq(v) >= 4 * t * t

\* track.get('velocity', np.array([0.0, 0.0])): <<>> stands for a missing key.
velocity_of(track) == IF track.velocity = <<>> THEN <<0, 0>> ELSE track.velocity

\* ActivityClassifier._get_center, in half-pixel units.
cls_get_center(bbox) == <<bbox[1] + bbox[3], bbox[2] + bbox[4]>>

\* ActivityClassifier._calculate_direction.  The code returns the angle of the
\* displacement from the first to the last position, or None; the model keeps
\* the displacement itself, <<>> standing for None.
_calculate_direction(positions) ==
    IF Len(positions) < 2 THEN <<>>
    ELSE LET displacement == <<positions[Len(positions)][1] - positions[1][1],
                               positions[Len(positions)][2] - positions[1][2]>>
         IN  IF NormSq(displacement) = 0 THEN <<>> ELSE displacement

\* abs(_angle_difference(dir1, dir2)) > thresholds['direction_change'] (45
\* degrees) for the directions of the displacements d1 and d2.
\* _angle_difference folds the difference of the two angles into [0, 180],
\* which is the angle between the vectors; it exceeds 45 degrees iff its
\* cosine d1.d2 / (|d1| |d2|) is below sqrt(2)/2.
direction_change_exceeded(d1, d2) ==
    LET dot == d1[1] * d2[1] + d1[2] * d2[2]
    IN  dot <= 0 \/ 2 * dot * dot < NormSq(d1) * NormSq(d2)

\* Mutant: the loop runs over range(len(positions) - window_size * 2 + 1).
compared_offsets_inclusive(positions) == 0 .. Len(positions) - window_size * 2

\* The offsets i the loop of _is_erratic_behavior runs over,
\* range(len(positions) - window_size * 2); at offset i it compares the
\* window positions[i : i + 5] with the window positions[i + 5 : i + 10].
compared_offsets(positions) == 0 .. Len(positions) - window_size * 2 - 1

\* The value of direction_changes at the end of the loop of
\* _is_erratic_behavior.
direction_changes(positions) ==
    Cardinality(
        {i \in compared_offsets(positions) :
            LET dir1 == _calculate_direction(
                            SubSeq(positions, i + 1, i + window_size))
                dir2 == _calculate_direction(
                            SubSeq(positions, i + window_size + 1, i + window_size * 2))
            IN  /\ dir1 # <<>>
                /\ dir2 # <<>>
                /\ direction_change_exceeded(dir1, dir2)})

\* ActivityClassifier._is_erratic_behavior.
_is_erratic_behavior(ph, track_id) ==
    IF track_id \notin DOMAIN ph THEN FALSE
    ELSE IF Len(ph[track_id]) < 10 THEN FALSE
    ELSE direction_changes(ph[track_id]) >= erratic_changes

\* Mutant: the speed bands are tried before the erratic check.
_classify_individual_activity_speed_first(ph, track) ==
    LET velocity == velocity_of(track)
    IN  IF norm_below(velocity, stopped_speed) THEN "PARADO"
        ELSE IF norm_at_least(velocity, running_speed) THEN "CORRENDO"
        ELSE IF _is_erratic_behavior(ph, track.id) THEN "COMPORTAMENTO_ERRATICO"
        ELSE "CAMINHANDO"

\* Mutant: CORRENDO only from 10.0 pixels per frame on.
_classify_individual_activity_run_from_ten(ph, track) ==
    LET velocity == velocity_of(track)
    IN  IF _is_erratic_behavior(ph, track.id) THEN "COMPORTAMENTO_ERRATICO"
        ELSE IF norm_below(velocity, stopped_speed) THEN "PARADO"
        ELSE IF norm_below(velocity, walking_speed) THEN "CAMINHANDO"
        ELSE IF norm_at_least(velocity, 10) THEN "CORRENDO"
        ELSE "CAMINHANDO"

\* Mutant: CORRENDO only above running_speed, not at it.
_classify_individual_activity_run_above(ph, track) ==
    LET velocity == velocity_of(track)
    IN  IF _is_erratic_behavior(ph, track.id) THEN "COMPORTAMENTO_ERRATICO"
        ELSE IF norm_below(velocity, stopped_speed) THEN "PARADO"
        ELSE IF norm_below(velocity, walking_speed) THEN "CAMINHANDO"
        ELSE IF NormSq(velocity) > 4 * running_speed * running_speed THEN "CORRENDO"
        ELSE "CAMINHANDO"

\* Mutant: the stopped band ends at 1.0 instead of stopped_speed.
_classify_individual_activity_low_stop(ph, track) ==
    LET velocity == velocity_of(track)
    IN  IF _is_erratic_behavior(ph, track.id) THEN "COMPORTAMENTO_ERRATICO"
        ELSE IF norm_below(velocity, 1) THEN "PARADO"
        ELSE IF norm_below(velocity, walking_speed) THEN "CAMINHANDO"
        ELSE IF norm_at_least(velocity, running_speed) THEN "CORRENDO"
        ELSE "CAMINHANDO"

\* ActivityClassifier._classify_individual_activity.
_classify_individual_activity(ph, track) ==
    LET velocity == velocity_of(track)
    IN  IF _is_erratic_behavior(ph, track.id) THEN "COMPORTAMENTO_ERRATICO"
        ELSE IF norm_below(velocity, stopped_speed) THEN "PARADO"
        ELSE IF norm_below(velocity, walking_speed) THEN "CAMINHANDO"
        ELSE IF norm_at_least(velocity, running_speed) THEN "CORRENDO"
        ELSE "CAMINHANDO"

\* distance between the centers of two boxes < d pixels.
centers_closer_than(b1, b2, d) ==
    LET c1 == cls_get_center(b1)
        c2 == cls_get_center(b2)
    IN  norm_below(<<c1[1] - c2[1], c1[2] - c2[2]>>, d)

\* Mutant: the other track may be of any class.
_check_interactions_any_other(track, all_tracks) ==
    \E n \in 1 .. Len(all_tracks) :
        /\ all_tracks[n].id # track.id
        /\ track.class_id = 0
        /\ centers_closer_than(track.bbox, all_tracks[n].bbox, interaction_distance)

\* Mutant: only tracks that come later in the list are looked at.
_check_interactions_later_only(track, all_tracks) ==
    \E m, n \in 1 .. Len(all_tracks) :
        /\ all_tracks[m] = track
        /\ n > m
        /\ all_tracks[n].id # track.id
        /\ track.class_id = 0 /\ all_tracks[n].class_id = 0
        /\ centers_closer_than(track.bbox, all_tracks[n].bbox, interaction_distance)

\* ActivityClassifier._check_interactions.
_check_interactions(track, all_tracks) ==
    \E n \in 1 .. Len(all_tracks) :
        /\ all_tracks[n].id # track.id
        /\ track.class_id = 0 /\ all_tracks[n].class_id = 0
        /\ centers_closer_than(track.bbox, all_tracks[n].bbox, interaction_distance)

RECURSIVE _update_position_history(_, _, _)
\* ActivityClassifier._update_position_history, from the n-th track on.
_update_position_history(ph, trs, n) ==
    IF n > Len(trs) THEN ph
    ELSE LET track_id == trs[n].id
             old == IF track_id \in DOMAIN ph THEN ph[track_id] ELSE <<>>
             new == deque_append(old, cls_get_center(trs[n].bbox), cls_history_size)
         IN  _update_position_history(
                [k \in DOMAIN ph \cup {track_id} |-> IF k = track_id THEN new ELSE ph[k]],
                trs, n + 1)

RECURSIVE classify_loop(_, _, _, _, _)
\* The loop of classify (lines 62-79) from the n-th track on: returns the
\* activities and the activity history.
classify_loop(ph, ah, acts, trs, n) ==
    IF n > Len(trs) THEN [activities |-> acts, activity_history |-> ah]
    ELSE LET track == trs[n]
             track_id == track.id
             individual == _classify_individual_activity(ph, track)
             activity == IF individual # "INTERAGINDO" /\ _check_interactions(track, trs)
                         THEN "INTERAGINDO"
                         ELSE individual
             old == IF track_id \in DOMAIN ah THEN ah[track_id] ELSE <<>>
             new == deque_append(old, activity, cls_history_size)
         IN  classify_loop(
                ph,
                [k \in DOMAIN ah \cup {track_id} |-> IF k = track_id THEN new ELSE ah[k]],
                [k \in DOMAIN acts \cup {track_id} |-> IF k = track_id THEN activity ELSE acts[k]],
                trs, n + 1)

\* Mutant: the velocity of a track labelled PARADO is set to zero in the
\* track dictionary.
classify_snaps_velocity(ph, ah, trs) ==
    LET ph1 == _update_position_history(ph, trs, 1)
        r == classify_loop(ph1, ah, <<>>, trs, 1)
    IN  [position_history |-> ph1,
         activity_history |-> r.activity_history,
         activities |-> r.activities,
         tracks |-> [n \in 1 .. Len(trs) |->
                        IF r.activities[trs[n].id] = "PARADO"
                        THEN [trs[n] EXCEPT !.velocity = <<0, 0>>]
                        ELSE trs[n]]]

\* ActivityClassifier.classify(tracks, frame_number); frame_number is not read.
\* The track dictionaries of the list are the registry's own; the field
\* tracks is the list as the call leaves it.
classify(ph, ah, trs) ==
    LET ph1 == _update_position_history(ph, trs, 1)
        r == classify_loop(ph1, ah, <<>>, trs, 1)
    IN  [position_history |-> ph1,
         activity_history |-> r.activity_history,
         activities |-> r.activities,
         tracks |-> trs]

(***************************************************************************)
(* The registry watching a scene of two objects                            *)
(***************************************************************************)

\* Bounds of the exploration: ids handed out, and hits a track may collect.
MaxIds == 2
MaxHits == 3

\* A person box and a bottle box that does not overlap it.
DetPerson == [bbox |-> <<0, 0, 4, 4>>, class_id |-> 0, confidence |-> 90]
DetBottle == [bbox |-> <<10, 0, 14, 4>>, class_id |-> 39, confidence |-> 70]

\* Each frame shows none, one or both of the objects, in either order.
DetLists ==
    { <<>>, <<DetPerson>>, <<DetBottle>>,
      <<DetPerson, DetBottle>>, <<DetBottle, DetPerson>> }

InitTracker ==
    /\ tracks = <<>>
    /\ next_id = 1
    /\ ret = <<>>
    /\ last_dets = <<>>
    /\ last_pairs = {}
    /\ assigned = <<>>
    /\ removed = {}
    /\ nmatch = <<>>
    /\ idle = <<>>
    /\ trail = <<>>
    /\ updates = 0

InitIoU ==
    /\ bbox1 = <<0, 0, 0, 0>>
    /\ bbox2 = <<0, 0, 0, 0>>
    /\ iou = <<>>

\* ActivityClassifier.__init__; no trajectory is followed.
InitClassifier ==
    /\ activity_history = <<>>
    /\ position_history = <<>>
    /\ cls_tracks = <<>>
    /\ activities = <<>>
    /\ traj = "straight"
    /\ walked = 0
    /\ free_calls = 0
    /\ unit_run = <<>>

\* AnomalyDetector.__init__; both clocks read 0.
InitDetector ==
    /\ anomalies = <<>>
    /\ track_states = <<>>
    /\ velocity_history = <<>>
    /\ det_tracks = <<>>
    /\ det_activities = <<>>
    /\ frame_number = 0
    /\ timestamp = 0
    /\ now = 0
    /\ period = 0
    /\ frame_anomalies = <<>>
    /\ stopped_wall = <<>>

\* What ObjectTracker.update(detections) leaves behind, lines 33-45, r being
\* the registry after association or first creation; the history variables
\* record what the call did.
UpdateEffect(detections, r) ==
    \E gone \in {_cleanup_ids(r.st.tracks)} :
        LET st == r.st
            kept == [k \in DOMAIN st.tracks \ gone |-> st.tracks[k]]
            hit == {p[2] : p \in r.pairs}
            new == {st.created[n] : n \in 1 .. Len(st.created)}
            unmatched == Ascending((1 .. Len(detections)) \ {p[1] : p \in r.pairs})
            given(k) ==
                IF k \in new
                THEN detections[unmatched[CHOOSE n \in 1 .. Len(st.created) :
                                             st.created[n] = k]]
                ELSE detections[(CHOOSE p \in r.pairs : p[2] = k)[1]]
        IN  /\ tracks' = kept
            /\ next_id' = st.next_id
            /\ ret' = _get_active_tracks(kept)
            /\ last_dets' = detections
            /\ last_pairs' = r.pairs
            /\ assigned' = assigned \o [n \in 1 .. Len(st.created) |->
                                        [id |-> st.created[n], dead |-> removed]]
            /\ removed' = removed \cup gone
            /\ nmatch' = [k \in DOMAIN kept |->
                            IF k \in new THEN 0
                            ELSE IF k \in hit THEN nmatch[k] + 1 ELSE nmatch[k]]
            /\ idle' = [k \in DOMAIN idle \cup new |->
                          IF k \in new \/ k \in hit THEN 0
                          ELSE IF k \in DOMAIN tracks THEN idle[k] + 1 ELSE idle[k]]
            /\ trail' = [k \in DOMAIN kept |->
                           IF k \in new THEN <<_bbox_center(given(k).bbox)>>
                           ELSE IF k \in hit
                           THEN Append(trail[k], _bbox_center(given(k).bbox))
                           ELSE trail[k]]

\* ObjectTracker.update(detections), within the bounds of the exploration.
UpdateCall(detections) ==
    \E r \in {update_assoc(tracks, next_id, detections)} :
        /\ r.st.next_id <= MaxIds + 1
        /\ \A k \in DOMAIN r.st.tracks : r.st.tracks[k].hits <= MaxHits
        /\ UpdateEffect(detections, r)

Update ==
    /\ \E detections \in DetLists : UpdateCall(detections)
    /\ UNCHANGED updates
    /\ UNCHANGED <<iou_vars, cls_vars, det_vars>>

Init == InitTracker /\ InitIoU /\ InitClassifier /\ InitDetector

Next == Update

Spec == Init /\ [][Next]_vars

(***************************************************************************)
(* Properties of the registry                                              *)
(***************************************************************************)

ReturnedIds == {ret[n].id : n \in 1 .. Len(ret)}

\* C1: every id handed out is strictly greater than every id handed out
\* before it, the ids of tracks deleted in earlier calls included; no id is
\* given to two tracks, and a track is filed under its own id.
C1_IdsStrictlyIncreasing ==
    /\ \A m, n \in 1 .. Len(assigned) : m < n => assigned[m].id < assigned[n].id
    /\ \A n \in 1 .. Len(assigned) : \A k \in assigned[n].dead : assigned[n].id > k
    /\ \A k \in DOMAIN tracks :
          /\ tracks[k].id = k
          /\ \E n \in 1 .. Len(assigned) : assigned[n].id = k

\* C1 witness: a track was created in a call made after another was deleted.
C1_Witness ==
    \E n \in 1 .. Len(assigned) :
        /\ assigned[n].dead # {}
        /\ assigned[n].id \in DOMAIN tracks

\* C2: update returns exactly the registry's tracks with hits >= 3, and a
\* track is among them exactly from its second match on: never in the call
\* that created it (no match yet) nor in the call of its first match.
C2_ReturnedFromSecondMatch ==
    /\ ReturnedIds = {k \in DOMAIN tracks : tracks[k].hits >= 3}
    /\ \A n \in 1 .. Len(ret) : ret[n] = tracks[ret[n].id]
    /\ \A m, n \in 1 .. Len(ret) : m # n => ret[m].id # ret[n].id
    /\ \A k \in DOMAIN tracks : k \in ReturnedIds <=> nmatch[k] >= 2

\* C2 witness: a track returned by the call of its second match, next to a
\* track that the same call matched for the first time and did not return.
C2_Witness ==
    \E k, j \in DOMAIN tracks :
        /\ nmatch[k] = 2 /\ idle[k] = 0 /\ k \in ReturnedIds
        /\ nmatch[j] = 1 /\ idle[j] = 0 /\ j \notin ReturnedIds

\* C3: after every update no track has age > 30; a track is in the registry
\* as long as it went unmatched in at most 30 consecutive calls and is deleted
\* by the 31st; the id of a deleted track is never in the registry or in a
\* returned list again.
C3_RemovedAfterMaxAge ==
    /\ \A k \in DOMAIN tracks : tracks[k].age <= 30 /\ tracks[k].age = idle[k]
    /\ \A k \in DOMAIN idle :
          /\ idle[k] <= 31
          /\ idle[k] <= 30 <=> k \in DOMAIN tracks
          /\ idle[k] = 31 <=> k \in removed
    /\ removed \cap DOMAIN tracks = {}
    /\ removed \cap ReturnedIds = {}

\* C3 witness: one track was deleted by its 31st unmatched call while another,
\* unmatched for 30 calls, is still held and returned.
C3_Witness ==
    /\ removed # {}
    /\ \E k \in DOMAIN tracks : idle[k] = 30 /\ k \in ReturnedIds

\* C16: an update call with no detection creates no track and leaves next_id
\* alone; of every track it raises the age by one and changes nothing else;
\* and it removes exactly the tracks whose age became more than 30.
C16_EmptyFrameOnlyAges ==
    [][last_dets' = <<>> =>
          /\ next_id' = next_id
          /\ DOMAIN tracks' \subseteq DOMAIN tracks
          /\ \A k \in DOMAIN tracks :
                IF tracks[k].age + 1 > 30
                THEN k \notin DOMAIN tracks'
                ELSE /\ k \in DOMAIN tracks'
                     /\ tracks'[k] = [tracks[k] EXCEPT !.age = tracks[k].age + 1]
      ]_vars

\* C16 witness: after a frame with no detection one track is gone and
\* another, left at age 30, is still there.
C16_Witness ==
    /\ last_dets = <<>>
    /\ removed # {}
    /\ \E k \in DOMAIN tracks : tracks[k].age = 30

(***************************************************************************)
(* _calculate_iou over all boxes of a small grid                           *)
(***************************************************************************)

\* Bound: the largest coordinate of the grid.
GridMax == 2

\* The axis-aligned boxes of the grid, zero-area boxes (x1 = x2 or y1 = y2)
\* included.
GridBoxes ==
    {b \in (0 .. GridMax) \X (0 .. GridMax) \X (0 .. GridMax) \X (0 .. GridMax) :
        b[1] <= b[3] /\ b[2] <= b[4]}

InitIoUArgs ==
    /\ bbox1 \in GridBoxes
    /\ bbox2 \in GridBoxes
    /\ iou = <<>>

\* The two calls _calculate_iou(bbox1, bbox2) and _calculate_iou(bbox2, bbox1).
ComputeIoU ==
    /\ iou = <<>>
    /\ iou' = <<_calculate_iou(bbox1, bbox2), _calculate_iou(bbox2, bbox1)>>
    /\ UNCHANGED <<bbox1, bbox2>>
    /\ UNCHANGED <<trk_vars, cls_vars, det_vars>>

InitIoUSpec == InitTracker /\ InitIoUArgs /\ InitClassifier /\ InitDetector

SpecIoU == InitIoUSpec /\ [][ComputeIoU]_vars

BoxArea(b) == (b[3] - b[1]) * (b[4] - b[2])

\* The boxes share no point (they are separated along x or along y).
Apart(a, b) == a[3] < b[1] \/ b[3] < a[1] \/ a[4] < b[2] \/ b[4] < a[2]

\* The boxes share no area: apart, or touching along an edge or a corner, or
\* one of them has no area.
NoSharedArea(a, b) ==
    Min(a[3], b[3]) <= Max(a[1], b[1]) \/ Min(a[4], b[4]) <= Max(a[2], b[2])

FracEq(f, g) == f[1] * g[2] = g[1] * f[2]
FracInUnit(f) == f[2] > 0 /\ 0 <= f[1] /\ f[1] <= f[2]
FracIsOne(f) == f[1] = f[2]
FracIsZero(f) == f[1] = 0

\* C4 as stated: IoU is symmetric, lies in [0,1], is 1 for the same box
\* (zero-area boxes included) and 0 for boxes that do not overlap.
C4_AsStated ==
    iou # <<>> =>
        /\ FracEq(iou[1], iou[2])
        /\ FracInUnit(iou[1])
        /\ bbox1 = bbox2 => FracIsOne(iou[1])
        /\ Apart(bbox1, bbox2) => FracIsZero(iou[1])

\* C4 amended: IoU is symmetric, lies in [0,1], is 1 for the same box when
\* the box has a positive area and 0 when it has none, and is 0 for boxes
\* that share no area.
C4_IoUProperties ==
    iou # <<>> =>
        /\ FracEq(iou[1], iou[2])
        /\ FracInUnit(iou[1])
        /\ bbox1 = bbox2 /\ BoxArea(bbox1) > 0 => FracIsOne(iou[1])
        /\ bbox1 = bbox2 /\ BoxArea(bbox1) = 0 => FracIsZero(iou[1])
        /\ NoSharedArea(bbox1, bbox2) => FracIsZero(iou[1])
        /\ ~NoSharedArea(bbox1, bbox2) => ~FracIsZero(iou[1])

\* C4 witness: the IoU of a box of positive area with itself has been computed.
C4_Witness ==
    /\ iou # <<>>
    /\ bbox1 = bbox2
    /\ BoxArea(bbox1) > 0
    /\ FracIsOne(iou[1])

(***************************************************************************)
(* The classifier fed a walking person, then arbitrary frames              *)
(***************************************************************************)

\* Bounds: frames of the trajectory, and arbitrary frames after them.
MaxWalk == 13
MaxFree == 1

\* Track 1 walks one pixel per frame: straight east; back and forth along x,
\* turning every 5 frames; or 5 frames east and 5 frames north in turn.
Trajectories == {"straight", "bounce", "stair"}

\* The position of the walker at frame k (k = 0 is where it comes from).
TrajPos(t, k) ==
    IF t = "straight" THEN <<k, 0>>
    ELSE IF t = "bounce"
    THEN LET m == k % 10 IN <<IF m <= 5 THEN m ELSE 10 - m, 0>>
    ELSE LET block == k \div 5
             r == k % 5
         IN  <<5 * ((block + 1) \div 2) + (IF block % 2 = 0 THEN r ELSE 0),
               5 * (block \div 2) + (IF block % 2 = 1 THEN r ELSE 0)>>

\* A person-sized box with its corner at <<100, 100>> + pos.
BoxAt(pos) == <<100 + pos[1], 100 + pos[2], 150 + pos[1], 200 + pos[2]>>

ShiftX(bbox, dx) == <<bbox[1] + dx, bbox[2], bbox[3] + dx, bbox[4]>>

\* Frame k of the walk: track 1 alone, its velocity the step it just made.
WalkFrame(t, k) ==
    LET p == TrajPos(t, k)
        q == TrajPos(t, k - 1)
    IN  << [id |-> 1, bbox |-> BoxAt(p), class_id |-> 0,
            velocity |-> <<2 * (p[1] - q[1]), 2 * (p[2] - q[2])>>] >>

\* Velocities of track 1 in an arbitrary frame: no velocity key, and speeds
\* 0, 1.0, 1.5, 2.0, 5.0, 7.0, 8.0 and 12.0 pixels per frame.
FreeVelocities == {<<>>, <<0, 0>>, <<2, 0>>, <<3, 0>>, <<4, 0>>, <<10, 0>>,
                   <<14, 0>>, <<16, 0>>, <<24, 0>>}

\* An arbitrary frame: track 1 where the walk left it, with any of the
\* velocities, as a person or a bottle; alone, or followed by a still track 2,
\* person or bottle, whose center is 50, 100 or 200 pixels from track 1's.
FreeFrames(bbox) ==
    LET firsts == {[id |-> 1, bbox |-> bbox, class_id |-> c, velocity |-> v] :
                      c \in {0, 39}, v \in FreeVelocities}
        seconds == {[id |-> 2, bbox |-> ShiftX(bbox, dx), class_id |-> c,
                     velocity |-> <<0, 0>>] :
                      c \in {0, 39}, dx \in {50, 100, 200}}
    IN  {<<f>> : f \in firsts} \cup {<<f, g>> : f \in firsts, g \in seconds}

\* The history of consecutive calls with the track alone at speed 1.0.
UnitRunAfter(run, trs) ==
    [k \in {trs[n].id : n \in 1 .. Len(trs)} |->
        IF Len(trs) = 1 /\ NormSq(velocity_of(trs[1])) = 4
        THEN (IF k \in DOMAIN run THEN run[k] ELSE 0) + 1
        ELSE 0]

\* ActivityClassifier.classify(trs, frame_number), lines 46-81.
ClassifyCall(trs) ==
    \E r \in {classify(position_history, activity_history, trs)} :
        /\ position_history' = r.position_history
        /\ activity_history' = r.activity_history
        /\ activities' = r.activities
        /\ cls_tracks' = r.tracks
        /\ unit_run' = UnitRunAfter(unit_run, trs)

\* classify on the next frame of the walk.
ClassifyWalk ==
    /\ walked < MaxWalk
    /\ free_calls = 0
    /\ ClassifyCall(WalkFrame(traj, walked + 1))
    /\ walked' = walked + 1
    /\ UNCHANGED <<traj, free_calls>>
    /\ UNCHANGED <<trk_vars, iou_vars, det_vars>>

\* classify on an arbitrary frame.
ClassifyFree ==
    /\ free_calls < MaxFree
    /\ \E trs \in FreeFrames(BoxAt(TrajPos(traj, walked))) : ClassifyCall(trs)
    /\ free_calls' = free_calls + 1
    /\ UNCHANGED <<traj, walked>>
    /\ UNCHANGED <<trk_vars, iou_vars, det_vars>>

InitClassifySpec ==
    /\ InitTracker
    /\ InitIoU
    /\ InitDetector
    /\ activity_history = <<>>
    /\ position_history = <<>>
    /\ cls_tracks = <<>>
    /\ activities = <<>>
    /\ traj \in Trajectories
    /\ walked = 0
    /\ free_calls = 0
    /\ unit_run = <<>>

NextClassify == ClassifyWalk \/ ClassifyFree

SpecClassify == InitClassifySpec /\ [][NextClassify]_vars

(***************************************************************************)
(* Properties of the classifier                                            *)
(***************************************************************************)

ClassifiedIds == {cls_tracks[n].id : n \in 1 .. Len(cls_tracks)}

\* No other person-class track of the last frame is within 100px of track t.
NoPersonNear(t) ==
    \A n \in 1 .. Len(cls_tracks) :
        LET u == cls_tracks[n]
        IN  u.id # t.id /\ t.class_id = 0 /\ u.class_id = 0
                => ~centers_closer_than(t.bbox, u.bbox, 100)

\* C5 as stated: a track classified alone with speed 1.0 in each of up to 10
\* consecutive calls is labelled CAMINHANDO in each of them.
C5_AsStated ==
    \A k \in DOMAIN unit_run :
        unit_run[k] >= 1 /\ unit_run[k] <= 10 => activities[k] = "CAMINHANDO"

\* C5 amended: a track classified alone with speed 1.0 in each of its first
\* 10 calls is labelled PARADO in each of them, never CAMINHANDO nor
\* COMPORTAMENTO_ERRATICO.
C5_UnitSpeedIsStopped ==
    \A k \in DOMAIN unit_run :
        /\ unit_run[k] >= 1
        /\ unit_run[k] <= 10
        /\ unit_run[k] = Len(position_history[k])
        => /\ activities[k] = "PARADO"
           /\ \A n \in 1 .. Len(activity_history[k]) : activity_history[k][n] = "PARADO"

\* C5 witness: the tenth call of a track that walks back and forth at speed
\* 1.0 has labelled it PARADO.
C5_Witness ==
    /\ traj = "bounce"
    /\ 1 \in DOMAIN unit_run
    /\ unit_run[1] = 10
    /\ Len(position_history[1]) = 10
    /\ activities[1] = "PARADO"

\* The displacement over the 5-sample window that starts at sample first.
WindowDisplacement(positions, first) ==
    <<positions[first + 4][1] - positions[first][1],
      positions[first + 4][2] - positions[first][2]>>

\* The window of 5 samples after offset i and the next window of 5 both have
\* a direction, and the two directions differ by more than 45 degrees.
WindowPairTurns(positions, i) ==
    LET d1 == WindowDisplacement(positions, i + 1)
        d2 == WindowDisplacement(positions, i + 6)
    IN  /\ NormSq(d1) > 0
        /\ NormSq(d2) > 0
        /\ (d1[1] * d2[1] + d1[2] * d2[2] <= 0
            \/ 2 * (d1[1] * d2[1] + d1[2] * d2[2]) * (d1[1] * d2[1] + d1[2] * d2[2])
                  < NormSq(d1) * NormSq(d2))

\* The number of window pairs, among those the erratic check compares
\* (offsets 0 .. n - 11), whose direction changes by more than 45 degrees.
TurningPairs(positions) ==
    Cardinality({i \in 0 .. Len(positions) - 11 : WindowPairTurns(positions, i)})

C7_NearPersonsInteract ==
    \A m, n \in 1 .. Len(cls_tracks) :
        LET t == cls_tracks[m]
            u == cls_tracks[n]
        IN  /\ t.id # u.id
            /\ t.class_id = 0 /\ u.class_id = 0
            /\ centers_closer_than(t.bbox, u.bbox, 100)
            => activities[t.id] = "INTERAGINDO" /\ activities[u.id] = "INTERAGINDO"

\* C7 witness: two still persons 50px apart, the first with a history that
\* is not erratic, are both labelled INTERAGINDO.
C7_Witness ==
    /\ Len(cls_tracks) = 2
    /\ cls_tracks[1].class_id = 0 /\ cls_tracks[2].class_id = 0
    /\ centers_closer_than(cls_tracks[1].bbox, cls_tracks[2].bbox, 51)
    /\ cls_tracks[1].velocity = <<0, 0>> /\ cls_tracks[2].velocity = <<0, 0>>
    /\ TurningPairs(position_history[1]) < 3
    /\ activities[1] = "INTERAGINDO" /\ activities[2] = "INTERAGINDO"

\* C7 second case: the near person overrides an erratic history as well.
C7_WitnessErratic ==
    /\ Len(cls_tracks) = 2
    /\ TurningPairs(position_history[1]) >= 3
    /\ activities[1] = "INTERAGINDO" /\ activities[2] = "INTERAGINDO"

\* Four times the square of the speed of track t in pixels per frame, a
\* missing velocity counting as zero.
SpeedSq4(t) == IF t.velocity = <<>> THEN 0 ELSE NormSq(t.velocity)

\* The history of track t, this call's position included, holds at least 10
\* samples and turns in at least 3 of the window pairs compared.
ErraticHistory(t) ==
    /\ Len(position_history[t.id]) >= 10
    /\ TurningPairs(position_history[t.id]) >= 3

\* C27: a track that is not erratic and has no other person within 100px is
\* labelled PARADO iff its speed is below 2.0, CORRENDO iff its speed is at
\* least 8.0 and CAMINHANDO iff its speed is at least 2.0 and below 8.0; so
\* speeds 2.0 and 5.0 give CAMINHANDO and speed 8.0 gives CORRENDO.
C27_SpeedBands ==
    \A n \in 1 .. Len(cls_tracks) :
        LET t == cls_tracks[n]
        IN  NoPersonNear(t) /\ ~ErraticHistory(t) =>
               /\ activities[t.id] \in {"PARADO", "CAMINHANDO", "CORRENDO"}
               /\ activities[t.id] = "PARADO" <=> SpeedSq4(t) < 4 * 2 * 2
               /\ activities[t.id] = "CORRENDO" <=> SpeedSq4(t) >= 4 * 8 * 8
               /\ activities[t.id] = "CAMINHANDO" <=>
                     (SpeedSq4(t) >= 4 * 2 * 2 /\ SpeedSq4(t) < 4 * 8 * 8)

\* A person at speed exactly 8.0 with a bottle 50px away and a history of 13
\* straight steps is labelled CORRENDO.
C27_Witness ==
    /\ traj = "straight"
    /\ walked = 13
    /\ Len(cls_tracks) = 2
    /\ cls_tracks[1].class_id = 0
    /\ cls_tracks[2].class_id = 39
    /\ centers_closer_than(cls_tracks[1].bbox, cls_tracks[2].bbox, 51)
    /\ cls_tracks[1].velocity = <<16, 0>>
    /\ activities[1] = "CORRENDO"

\* Track t of the last frame is a person and another person of that frame
\* has its box center less than 100px from t's.
PersonWithin100(t) ==
    /\ t.class_id = 0
    /\ \E m \in 1 .. Len(cls_tracks) :
          LET u == cls_tracks[m]
              dx == (u.bbox[1] + u.bbox[3]) - (t.bbox[1] + t.bbox[3])
              dy == (u.bbox[2] + u.bbox[4]) - (t.bbox[2] + t.bbox[4])
          IN  /\ u.id # t.id
              /\ u.class_id = 0
              /\ dx * dx + dy * dy < 4 * 100 * 100

\* C28: a track is labelled INTERAGINDO exactly when it is a person and
\* another person of the same call, of a different id, has its center less
\* than 100px away: never a non-person track, never a lone person, and
\* always when the condition holds, whatever the history and the speed.
C28_InteractionOnlyPersons ==
    \A n \in 1 .. Len(cls_tracks) :
        LET t == cls_tracks[n]
        IN  activities[t.id] = "INTERAGINDO" <=> PersonWithin100(t)

\* A bottle and a person 50px apart: neither is labelled INTERAGINDO.
C28_Witness ==
    /\ Len(cls_tracks) = 2
    /\ cls_tracks[1].class_id = 0
    /\ cls_tracks[2].class_id = 39
    /\ centers_closer_than(cls_tracks[1].bbox, cls_tracks[2].bbox, 51)
    /\ activities[1] # "INTERAGINDO"
    /\ activities[2] # "INTERAGINDO"
    /\ ErraticHistory(cls_tracks[1])

\* C29 as stated: with n >= 10 samples in a track's position history the
\* erratic check compares the adjacent windows of the partition of the history
\* into successive non-overlapping windows of 5 samples, that is the windows
\* at offsets 5j and 5j + 5 for j = 0 .. floor(n/5) - 2, and nothing else; so
\* it makes floor(n/5) - 1 comparisons, at least one from 10 samples on.
C29_AsStated ==
    \A k \in DOMAIN position_history :
        LET n == Len(position_history[k])
        IN  n >= 10 =>
               /\ compared_offsets(position_history[k])
                     = {5 * j : j \in 0 .. (n \div 5) - 2}
               /\ compared_offsets(position_history[k]) # {}

(***************************************************************************)
(* AnomalyDetector (anomaly_detector.py)                                   *)
(*                                                                         *)
(* A state record has the keys of the code; stopped_since is <<>> when the *)
(* key is absent and <<t>> when it holds t.  max_distance is kept as the   *)
(* square of the distance in half-pixel units.  The description text of a  *)
(* record is left out.  time.time() is read once per detect call.          *)
(***************************************************************************)

\* self.thresholds
sudden_acceleration == 10
high_speed == 8
stopped_duration == 5
crowding_distance == 80
crowding_count == 3
return_threshold == 50
object_abandoned_time == 10
\* self.history_size
det_history_size == 10
\* the speed under which _update_track_states takes a track as stopped
stopped_below == 2
\* the seconds after which _update_track_states forgets an absent id
forget_after == 5

\* ANOMALY_TYPES[anomaly_type]['severity']
ANOMALY_TYPES_severity(anomaly_type) ==
    CASE anomaly_type = "MOVIMENTO_SUBITO" -> "MEDIA"
      [] anomaly_type = "VELOCIDADE_ANORMAL" -> "ALTA"
      [] anomaly_type = "PARADA_PROLONGADA" -> "BAIXA"
      [] anomaly_type = "AGLOMERACAO" -> "MEDIA"
      [] anomaly_type = "MOVIMENTO_REVERSO" -> "BAIXA"
      [] anomaly_type = "OBJETO_ABANDONADO" -> "ALTA"
      [] anomaly_type = "DIRECAO_PROIBIDA" -> "MEDIA"

\* AnomalyDetector._get_center, in half-pixel units.
det_get_center(bbox) == <<bbox[1] + bbox[3], bbox[2] + bbox[4]>>

\* The square of the distance between two centers, in half-pixel units.
dist_sq(c1, c2) == NormSq(<<c1[1] - c2[1], c1[2] - c2[2]>>)

\* activities.get(track_id)
activity_get(acts, track_id) ==
    IF track_id \in DOMAIN acts THEN acts[track_id] ELSE "None"

\* Mutant: max_distance is overwritten with the current distance.
update_track_state_last_distance(ts, vh, track, t) ==
    LET track_id == track.id
        velocity == velocity_of(track)
        center == det_get_center(track.bbox)
        old_vh == IF track_id \in DOMAIN vh THEN vh[track_id] ELSE <<>>
        state0 == IF track_id \in DOMAIN ts THEN ts[track_id]
                  ELSE [initial_position |-> center,
                        max_distance |-> 0,
                        first_seen |-> t,
                        current_position |-> center,
                        last_seen |-> t,
                        stopped_since |-> <<>>]
        distance == dist_sq(center, state0.initial_position)
        state1 == [state0 EXCEPT
                     !.current_position = center,
                     !.last_seen = t,
                     !.max_distance = distance,
                     !.stopped_since =
                         IF norm_below(velocity, stopped_below)
                         THEN (IF state0.stopped_since = <<>> THEN <<t>>
                               ELSE state0.stopped_since)
                         ELSE <<>>]
    IN  [track_states |->
             [k \in DOMAIN ts \cup {track_id} |->
                 IF k = track_id THEN state1 ELSE ts[k]],
         velocity_history |->
             [k \in DOMAIN vh \cup {track_id} |->
                 IF k = track_id
                 THEN deque_append(old_vh, velocity, det_history_size)
                 ELSE vh[k]]]

\* Mutant: stopped_since is stamped again on every call that finds the track
\* slow.
update_track_state_restamp(ts, vh, track, t) ==
    LET track_id == track.id
        velocity == velocity_of(track)
        center == det_get_center(track.bbox)
        old_vh == IF track_id \in DOMAIN vh THEN vh[track_id] ELSE <<>>
        state0 == IF track_id \in DOMAIN ts THEN ts[track_id]
                  ELSE [initial_position |-> center,
                        max_distance |-> 0,
                        first_seen |-> t,
                        current_position |-> center,
                        last_seen |-> t,
                        stopped_since |-> <<>>]
        distance == dist_sq(center, state0.initial_position)
        state1 == [state0 EXCEPT
                     !.current_position = center,
                     !.last_seen = t,
                     !.max_distance = Max(state0.max_distance, distance),
                     !.stopped_since =
                         IF norm_below(velocity, stopped_below)
                         THEN <<t>>
                         ELSE <<>>]
    IN  [track_states |->
             [k \in DOMAIN ts \cup {track_id} |->
                 IF k = track_id THEN state1 ELSE ts[k]],
         velocity_history |->
             [k \in DOMAIN vh \cup {track_id} |->
                 IF k = track_id
                 THEN deque_append(old_vh, velocity, det_history_size)
                 ELSE vh[k]]]

\* The body of the loop of _update_track_states for one track, lines 283-316.
update_track_state(ts, vh, track, t) ==
    LET track_id == track.id
        velocity == velocity_of(track)
        center == det_get_center(track.bbox)
        old_vh == IF track_id \in DOMAIN vh THEN vh[track_id] ELSE <<>>
        state0 == IF track_id \in DOMAIN ts THEN ts[track_id]
                  ELSE [initial_position |-> center,
                        max_distance |-> 0,
                        first_seen |-> t,
                        current_position |-> center,
                        last_seen |-> t,
                        stopped_since |-> <<>>]
        distance == dist_sq(center, state0.initial_position)
        state1 == [state0 EXCEPT
                     !.current_position = center,
                     !.last_seen = t,
                     !.max_distance = Max(state0.max_distance, distance),
                     !.stopped_since =
                         IF norm_below(velocity, stopped_below)
                         THEN (IF state0.stopped_since = <<>> THEN <<t>>
                               ELSE state0.stopped_since)
                         ELSE <<>>]
    IN  [track_states |->
             [k \in DOMAIN ts \cup {track_id} |->
                 IF k = track_id THEN state1 ELSE ts[k]],
         velocity_history |->
             [k \in DOMAIN vh \cup {track_id} |->
                 IF k = track_id
                 THEN deque_append(old_vh, velocity, det_history_size)
                 ELSE vh[k]]]

RECURSIVE update_track_states_loop(_, _, _, _, _)
\* The loop of _update_track_states from the n-th track on.
update_track_states_loop(ts, vh, trs, n, t) ==
    IF n > Len(trs) THEN [track_states |-> ts, velocity_history |-> vh]
    ELSE LET r == update_track_state(ts, vh, trs[n], t)
         IN  update_track_states_loop(r.track_states, r.velocity_history,
                                      trs, n + 1, t)

\* Mutant: an absent id is forgotten as soon as the gap reaches 5.0 seconds.
_update_track_states_early_purge(ts, vh, trs, t) ==
    LET r == update_track_states_loop(ts, vh, trs, 1, t)
        current_ids == {trs[n].id : n \in 1 .. Len(trs)}
        to_remove == {tid \in DOMAIN r.track_states :
                         /\ tid \notin current_ids
                         /\ t - r.track_states[tid].last_seen >= forget_after}
    IN  [track_states |->
             [k \in DOMAIN r.track_states \ to_remove |-> r.track_states[k]],
         velocity_history |->
             [k \in DOMAIN r.velocity_history \ to_remove |-> r.velocity_history[k]]]

\* AnomalyDetector._update_track_states(tracks, timestamp).
_update_track_states(ts, vh, trs, t) ==
    LET r == update_track_states_loop(ts, vh, trs, 1, t)
        current_ids == {trs[n].id : n \in 1 .. Len(trs)}
        to_remove == {tid \in DOMAIN r.track_states :
                         /\ tid \notin current_ids
                         /\ t - r.track_states[tid].last_seen > forget_after}
    IN  [track_states |->
             [k \in DOMAIN r.track_states \ to_remove |-> r.track_states[k]],
         velocity_history |->
             [k \in DOMAIN r.velocity_history \ to_remove |-> r.velocity_history[k]]]

\* Mutant: only the newest two samples are compared.
_check_sudden_movement_latest(vh, track_id) ==
    IF track_id \notin DOMAIN vh THEN FALSE
    ELSE LET velocities == vh[track_id]
         IN  IF Len(velocities) < 3 THEN FALSE
             ELSE \E i \in {Len(velocities) - 1} :
                     NormSq(<<velocities[i + 1][1] - velocities[i][1],
                              velocities[i + 1][2] - velocities[i][2]>>)
                         > 4 * sudden_acceleration * sudden_acceleration

\* Mutant: two samples are enough.
_check_sudden_movement_two_samples(vh, track_id) ==
    IF track_id \notin DOMAIN vh THEN FALSE
    ELSE LET velocities == vh[track_id]
         IN  IF Len(velocities) < 2 THEN FALSE
             ELSE \E i \in 1 .. Len(velocities) - 1 :
                     NormSq(<<velocities[i + 1][1] - velocities[i][1],
                              velocities[i + 1][2] - velocities[i][2]>>)
                         > 4 * sudden_acceleration * sudden_acceleration

\* AnomalyDetector._check_sudden_movement(track_id).
_check_sudden_movement(vh, track_id) ==
    IF track_id \notin DOMAIN vh THEN FALSE
    ELSE LET velocities == vh[track_id]
         IN  IF Len(velocities) < 3 THEN FALSE
             ELSE \E i \in 1 .. Len(velocities) - 1 :
                     NormSq(<<velocities[i + 1][1] - velocities[i][1],
                              velocities[i + 1][2] - velocities[i][2]>>)
                         > 4 * sudden_acceleration * sudden_acceleration

\* Mutant: speed >= high_speed.
_check_high_speed_at_least(track) ==
    NormSq(velocity_of(track)) >= 4 * high_speed * high_speed

\* AnomalyDetector._check_high_speed(track): speed > high_speed.
_check_high_speed(track) ==
    NormSq(velocity_of(track)) > 4 * high_speed * high_speed

\* Mutant: the stop must have lasted twice the threshold.
_check_prolonged_stop_late(ts, track_id, activity, wall) ==
    /\ activity = "PARADO"
    /\ track_id \in DOMAIN ts
    /\ ts[track_id].stopped_since # <<>>
    /\ wall - ts[track_id].stopped_since[1] > 2 * stopped_duration

\* AnomalyDetector._check_prolonged_stop(track_id, activity); wall is what
\* time.time() reads.
_check_prolonged_stop(ts, track_id, activity, wall) ==
    /\ activity = "PARADO"
    /\ track_id \in DOMAIN ts
    /\ ts[track_id].stopped_since # <<>>
    /\ wall - ts[track_id].stopped_since[1] > stopped_duration

\* Mutant: a farthest distance of exactly 100px counts as having gone far.
_check_reverse_movement_far_at_least(ts, track_id) ==
    /\ track_id \in DOMAIN ts
    /\ dist_sq(ts[track_id].current_position, ts[track_id].initial_position)
           < 4 * return_threshold * return_threshold
    /\ ts[track_id].max_distance
           >= 4 * (return_threshold * 2) * (return_threshold * 2)

\* AnomalyDetector._check_reverse_movement(track_id).
_check_reverse_movement(ts, track_id) ==
    /\ track_id \in DOMAIN ts
    /\ dist_sq(ts[track_id].current_position, ts[track_id].initial_position)
           < 4 * return_threshold * return_threshold
    /\ ts[track_id].max_distance
           > 4 * (return_threshold * 2) * (return_threshold * 2)

\* AnomalyDetector._check_abandoned_object(track, activity).
_check_abandoned_object(ts, track, activity, wall) ==
    /\ track.class_id # 0
    /\ activity = "PARADO"
    /\ track.id \in DOMAIN ts
    /\ ts[track.id].stopped_since # <<>>
    /\ wall - ts[track.id].stopped_since[1] > object_abandoned_time

\* Mutant: every record is given the severity of MOVIMENTO_REVERSO.
_create_anomaly_flat(anomaly_type, track, frame, t) ==
    [type |-> anomaly_type,
     severity |-> ANOMALY_TYPES_severity("MOVIMENTO_REVERSO"),
     frame |-> frame,
     timestamp |-> t,
     track_id |-> track.id,
     location |-> det_get_center(track.bbox),
     bbox |-> track.bbox]

\* AnomalyDetector._create_anomaly(anomaly_type, track, frame_number, timestamp).
_create_anomaly(anomaly_type, track, frame, t) ==
    [type |-> anomaly_type,
     severity |-> ANOMALY_TYPES_severity(anomaly_type),
     frame |-> frame,
     timestamp |-> t,
     track_id |-> track.id,
     location |-> det_get_center(track.bbox),
     bbox |-> track.bbox]

\* Mutant: the abandoned-object check comes before the prolonged-stop check.
track_anomalies_abandoned_first(ts, vh, acts, track, frame, t, wall) ==
    LET track_id == track.id
        activity == activity_get(acts, track_id)
    IN  (IF _check_sudden_movement(vh, track_id)
         THEN <<_create_anomaly("MOVIMENTO_SUBITO", track, frame, t)>> ELSE <<>>)
        \o (IF _check_high_speed(track)
            THEN <<_create_anomaly("VELOCIDADE_ANORMAL", track, frame, t)>> ELSE <<>>)
        \o (IF _check_abandoned_object(ts, track, activity, wall)
            THEN <<_create_anomaly("OBJETO_ABANDONADO", track, frame, t)>> ELSE <<>>)
        \o (IF _check_reverse_movement(ts, track_id)
            THEN <<_create_anomaly("MOVIMENTO_REVERSO", track, frame, t)>> ELSE <<>>)
        \o (IF _check_prolonged_stop(ts, track_id, activity, wall)
            THEN <<_create_anomaly("PARADA_PROLONGADA", track, frame, t)>> ELSE <<>>)

\* The records detect appends for one track, lines 96-126, in their order.
track_anomalies(ts, vh, acts, track, frame, t, wall) ==
    LET track_id == track.id
        activity == activity_get(acts, track_id)
    IN  (IF _check_sudden_movement(vh, track_id)
         THEN <<_create_anomaly("MOVIMENTO_SUBITO", track, frame, t)>> ELSE <<>>)
        \o (IF _check_high_speed(track)
            THEN <<_create_anomaly("VELOCIDADE_ANORMAL", track, frame, t)>> ELSE <<>>)
        \o (IF _check_prolonged_stop(ts, track_id, activity, wall)
            THEN <<_create_anomaly("PARADA_PROLONGADA", track, frame, t)>> ELSE <<>>)
        \o (IF _check_reverse_movement(ts, track_id)
            THEN <<_create_anomaly("MOVIMENTO_REVERSO", track, frame, t)>> ELSE <<>>)
        \o (IF _check_abandoned_object(ts, track, activity, wall)
            THEN <<_create_anomaly("OBJETO_ABANDONADO", track, frame, t)>> ELSE <<>>)

RECURSIVE sum_centers(_, _)
\* The sum of the centers of the tracks from the n-th on, in half-pixel units.
sum_centers(trs, n) ==
    IF n > Len(trs) THEN <<0, 0>>
    ELSE LET c == det_get_center(trs[n].bbox)
             rest == sum_centers(trs, n + 1)
         IN  <<c[1] + rest[1], c[2] + rest[2]>>

\* Mutant: nearby lists the seed and the others in the order of the input.
nearby_of_in_list_order(people, i, checked) ==
    LET center1 == det_get_center(people[i].bbox)
        close(j) == \/ j = i
                    \/ /\ people[j].id \notin checked
                       /\ dist_sq(center1, det_get_center(people[j].bbox))
                              < 4 * crowding_distance * crowding_distance
        js == Ascending({j \in 1 .. Len(people) : close(j)})
    IN  [k \in 1 .. Len(js) |-> people[js[k]]]

\* The list nearby that _check_crowding builds for the seed people[i]: the
\* seed, then every other person not yet checked whose center is less than
\* crowding_distance from the seed's, in list order.
nearby_of(people, i, checked) ==
    LET center1 == det_get_center(people[i].bbox)
        close(j) == /\ j # i
                    /\ people[j].id \notin checked
                    /\ dist_sq(center1, det_get_center(people[j].bbox))
                           < 4 * crowding_distance * crowding_distance
        js == Ascending({j \in 1 .. Len(people) : close(j)})
    IN  <<people[i]>> \o [k \in 1 .. Len(js) |-> people[js[k]]]

\* The record of a crowd.  location is <<sx, sy, n>>: the mean of the centers
\* is (sx / 2n, sy / 2n) pixels.
crowd_anomaly(nearby, frame, t) ==
    LET total == sum_centers(nearby, 1)
    IN  [type |-> "AGLOMERACAO",
         severity |-> ANOMALY_TYPES_severity("AGLOMERACAO"),
         frame |-> frame,
         timestamp |-> t,
         location |-> <<total[1], total[2], Len(nearby)>>,
         involved_tracks |-> [k \in 1 .. Len(nearby) |-> nearby[k].id],
         count |-> Len(nearby)]

RECURSIVE crowding_loop_forgetful(_, _, _, _, _)
\* Mutant: the members of a crowd are not marked as checked.
crowding_loop_forgetful(people, i, checked, frame, t) ==
    IF i > Len(people) THEN <<>>
    ELSE LET nearby == nearby_of(people, i, checked)
         IN  IF Len(nearby) >= crowding_count
             THEN <<crowd_anomaly(nearby, frame, t)>>
                  \o crowding_loop_forgetful(people, i + 1, checked, frame, t)
             ELSE crowding_loop_forgetful(people, i + 1, checked, frame, t)

RECURSIVE crowding_loop(_, _, _, _, _)
\* The outer loop of _check_crowding from the i-th person on.
crowding_loop(people, i, checked, frame, t) ==
    IF i > Len(people) THEN <<>>
    ELSE IF people[i].id \in checked
    THEN crowding_loop(people, i + 1, checked, frame, t)
    ELSE LET nearby == nearby_of(people, i, checked)
         IN  IF Len(nearby) >= crowding_count
             THEN <<crowd_anomaly(nearby, frame, t)>>
                  \o crowding_loop(people, i + 1,
                                   checked \cup {nearby[k].id : k \in 1 .. Len(nearby)},
                                   frame, t)
             ELSE crowding_loop(people, i + 1, checked, frame, t)

\* Mutant: a seed of an earlier, smaller group is taken as checked.
_check_crowding_seed_checked(trs, frame, t) ==
    LET people == SelectSeq(trs, LAMBDA tr : tr.class_id = 0)
        first == IF Len(people) >= 1 THEN {people[1].id} ELSE {}
    IN  IF Len(people) < crowding_count THEN <<>>
        ELSE crowding_loop(people, 2, first, frame, t)

\* AnomalyDetector._check_crowding(tracks, frame_number, timestamp).
_check_crowding(trs, frame, t) ==
    LET people == SelectSeq(trs, LAMBDA tr : tr.class_id = 0)
    IN  IF Len(people) < crowding_count THEN <<>>
        ELSE crowding_loop(people, 1, {}, frame, t)

RECURSIVE detect_loop(_, _, _, _, _, _, _, _)
\* The loop of detect over the tracks, lines 95-126, from the n-th on.
detect_loop(ts, vh, acts, trs, n, frame, t, wall) ==
    IF n > Len(trs) THEN <<>>
    ELSE track_anomalies(ts, vh, acts, trs[n], frame, t, wall)
         \o detect_loop(ts, vh, acts, trs, n + 1, frame, t, wall)

\* Mutant: the prolonged stop is also reported for the ids that are only
\* remembered in track_states.
detect_remembered(ts, vh, log, trs, acts, frame, t, wall) ==
    LET r == _update_track_states(ts, vh, trs, t)
        current_ids == {trs[n].id : n \in 1 .. Len(trs)}
        stale == Ascending({k \in DOMAIN r.track_states \ current_ids :
                               r.track_states[k].stopped_since # <<>>})
        found == detect_loop(r.track_states, r.velocity_history, acts, trs, 1,
                             frame, t, wall)
                 \o [n \in 1 .. Len(stale) |->
                        [type |-> "PARADA_PROLONGADA",
                         severity |-> ANOMALY_TYPES_severity("PARADA_PROLONGADA"),
                         frame |-> frame,
                         timestamp |-> t,
                         track_id |-> stale[n],
                         location |-> r.track_states[stale[n]].current_position,
                         bbox |-> <<>>]]
                 \o _check_crowding(trs, frame, t)
    IN  [track_states |-> r.track_states,
         velocity_history |-> r.velocity_history,
         anomalies |-> log \o found,
         frame_anomalies |-> found,
         tracks |-> trs]

\* Mutant: the records of the frame are put in front of the log.
detect_log_newest_first(ts, vh, log, trs, acts, frame, t, wall) ==
    LET r == _update_track_states(ts, vh, trs, t)
        found == detect_loop(r.track_states, r.velocity_history, acts, trs, 1,
                             frame, t, wall)
                 \o _check_crowding(trs, frame, t)
    IN  [track_states |-> r.track_states,
         velocity_history |-> r.velocity_history,
         anomalies |-> found \o log,
         frame_anomalies |-> found,
         tracks |-> trs]

\* AnomalyDetector.detect(tracks, activities, frame_number, timestamp), the
\* state given as ts, vh and the log; wall is what time.time() reads.  The
\* field tracks is the list of track dictionaries as the call leaves it.
detect(ts, vh, log, trs, acts, frame, t, wall) ==
    LET r == _update_track_states(ts, vh, trs, t)
        found == detect_loop(r.track_states, r.velocity_history, acts, trs, 1,
                             frame, t, wall)
                 \o _check_crowding(trs, frame, t)
    IN  [track_states |-> r.track_states,
         velocity_history |-> r.velocity_history,
         anomalies |-> log \o found,
         frame_anomalies |-> found,
         tracks |-> trs]

(***************************************************************************)
(* The rule engine fed the frames of a small scene                         *)
(*                                                                         *)
(* Frames come at a fixed period, and the frame timestamp and the wall     *)
(* clock advance together; the wall clock starts at the frame clock's      *)
(* origin or 100 seconds ahead of it, so a timestamp never exceeds the     *)
(* wall clock reading of its call (main.py passes frame_number / fps,      *)
(* time.time() counts from 1970).                                          *)
(***************************************************************************)

\* Bound: the detect calls made.
MaxFrames == 3

\* Seconds from one frame to the next, and the wall clock reading at the start.
Periods == {5, 6}
WallStarts == {0, 100}

\* Track 1, a person at the origin or 120 pixels east of it, still or moving
\* at 12 pixels per frame.
Walker(pos, v) == [id |-> 1, bbox |-> BoxAt(pos), class_id |-> 0, velocity |-> v]
WalkerPositions == {<<0, 0>>, <<120, 0>>}
WalkerVelocities == {<<0, 0>>, <<24, 0>>}

\* Track 2, a still bottle next to the origin.
Bottle == [id |-> 2, bbox |-> <<160, 180, 170, 200>>, class_id |-> 39,
           velocity |-> <<0, 0>>]

\* Tracks 3 and 4, still persons 30 and 60 pixels east of the origin.
Bystander(id, dx) ==
    [id |-> id, bbox |-> ShiftX(BoxAt(<<0, 0>>), dx), class_id |-> 0,
     velocity |-> <<0, 0>>]

\* What a frame can show, with the labels given for it: nothing; the walker
\* alone, labelled PARADO or INTERAGINDO; the walker at the origin moving at
\* exactly 2 pixels per frame; the bottle alone; the still walker at the
\* origin with the bottle and the two bystanders.
DetScenes ==
    {[tracks |-> <<>>, activities |-> <<>>]}
    \cup {[tracks |-> <<Walker(pos, v)>>, activities |-> (1 :> a)] :
            pos \in WalkerPositions, v \in WalkerVelocities,
            a \in {"PARADO", "INTERAGINDO"}}
    \cup {[tracks |-> <<Walker(<<0, 0>>, <<4, 0>>)>>, activities |-> (1 :> "PARADO")]}
    \cup {[tracks |-> <<Bottle>>, activities |-> (2 :> "PARADO")]}
    \cup {[tracks |-> <<Walker(<<0, 0>>, <<0, 0>>), Bottle,
                        Bystander(3, 30), Bystander(4, 60)>>,
           activities |-> (1 :> "PARADO" @@ 2 :> "PARADO"
                           @@ 3 :> "INTERAGINDO" @@ 4 :> "INTERAGINDO")]}

\* AnomalyDetector.detect(trs, acts, frame, t), lines 76-135, time.time()
\* reading wall during the call.
DetectCall(trs, acts, frame, t, wall) ==
    \E r \in {detect(track_states, velocity_history, anomalies,
                     trs, acts, frame, t, wall)} :
        /\ track_states' = r.track_states
        /\ velocity_history' = r.velocity_history
        /\ anomalies' = r.anomalies
        /\ frame_anomalies' = r.frame_anomalies
        /\ det_tracks' = r.tracks
        /\ det_activities' = acts
        /\ frame_number' = frame
        /\ timestamp' = t
        /\ now' = wall
        /\ stopped_wall' =
             [k \in {i \in DOMAIN r.track_states :
                        r.track_states[i].stopped_since # <<>>} |->
                 IF /\ k \in DOMAIN track_states
                    /\ track_states[k].stopped_since # <<>>
                 THEN stopped_wall[k]
                 ELSE wall]

\* detect on the next frame of the scene.
DetectFrame ==
    /\ frame_number < MaxFrames
    /\ \E sc \in DetScenes :
          DetectCall(sc.tracks, sc.activities, frame_number + 1,
                     timestamp + period, now + period)
    /\ UNCHANGED period
    /\ UNCHANGED <<trk_vars, iou_vars, cls_vars>>

InitDetectSpec ==
    /\ InitTracker
    /\ InitIoU
    /\ InitClassifier
    /\ anomalies = <<>>
    /\ track_states = <<>>
    /\ velocity_history = <<>>
    /\ det_tracks = <<>>
    /\ det_activities = <<>>
    /\ frame_number = 0
    /\ timestamp = 0
    /\ now \in WallStarts
    /\ period \in Periods
    /\ frame_anomalies = <<>>
    /\ stopped_wall = <<>>

SpecDetect == InitDetectSpec /\ [][DetectFrame]_vars

(***************************************************************************)
(* Properties of the rule engine                                           *)
(***************************************************************************)

\* The positions in a list of records of the records of one type for one track.
RecordsOf(records, anomaly_type, track_id) ==
    {k \in 1 .. Len(records) :
        /\ records[k].type = anomaly_type
        /\ records[k].track_id = track_id}

\* The track is the only one of the last input with its id.
UniqueInInput(n) ==
    \A m \in 1 .. Len(det_tracks) : det_tracks[m].id = det_tracks[n].id => m = n

\* The n-th track of the last input is labelled PARADO, stands still, and
\* more than stopped_duration seconds have passed since its stopped_since was
\* set, on the frame clock or on the wall clock.
StoppedLong(n) ==
    LET id == det_tracks[n].id
    IN  /\ UniqueInInput(n)
        /\ activity_get(det_activities, id) = "PARADO"
        /\ velocity_of(det_tracks[n]) = <<0, 0>>
        /\ id \in DOMAIN track_states
        /\ track_states[id].stopped_since # <<>>
        /\ \/ timestamp - track_states[id].stopped_since[1] > 5
           \/ now - stopped_wall[id] > 5

\* C8: a detect call made more than 5.0s after stopped_since was set, for a
\* track labelled PARADO that has stood still since, returns exactly one
\* PARADA_PROLONGADA record for that track; being true of every call, the
\* record comes again on each later qualifying frame.
C8_ProlongedStopEveryFrame ==
    \A n \in 1 .. Len(det_tracks) :
        StoppedLong(n) =>
            Cardinality(RecordsOf(frame_anomalies, "PARADA_PROLONGADA",
                                  det_tracks[n].id)) = 1

\* C8 witness: track 1 stood still and PARADO through three frames with the
\* wall clock on the frame clock; the first call returned no record for it,
\* the second and the third returned one each.
C8_Witness ==
    /\ frame_number = 3
    /\ Len(det_tracks) >= 1
    /\ det_tracks[1].id = 1
    /\ StoppedLong(1)
    /\ track_states[1].stopped_since = <<track_states[1].first_seen>>
    /\ stopped_wall[1] = track_states[1].first_seen
    /\ {anomalies[k].frame : k \in RecordsOf(anomalies, "PARADA_PROLONGADA", 1)}
           = {2, 3}
    /\ Cardinality(RecordsOf(anomalies, "PARADA_PROLONGADA", 1)) = 2
    /\ Cardinality(RecordsOf(frame_anomalies, "PARADA_PROLONGADA", 1)) = 1

\* The severity the specification fixes for each emitted type.
FixedSeverity ==
    ("MOVIMENTO_SUBITO" :> "MEDIA") @@ ("AGLOMERACAO" :> "MEDIA")
    @@ ("VELOCIDADE_ANORMAL" :> "ALTA") @@ ("OBJETO_ABANDONADO" :> "ALTA")
    @@ ("PARADA_PROLONGADA" :> "BAIXA") @@ ("MOVIMENTO_REVERSO" :> "BAIXA")

WellTyped(records) ==
    \A k \in 1 .. Len(records) :
        /\ records[k].type \in DOMAIN FixedSeverity
        /\ records[k].severity = FixedSeverity[records[k].type]

\* C9: every record returned by detect or held in the log has one of the six
\* emitted types and the severity fixed for its type.
C9_TypesAndSeverities ==
    /\ WellTyped(frame_anomalies)
    /\ WellTyped(anomalies)

\* C9 witness: the log holds a record of each of the six types.
C9_Witness ==
    {anomalies[k].type : k \in 1 .. Len(anomalies)} = DOMAIN FixedSeverity

\* The ids of the tracks of the last input.
InputIds == {det_tracks[n].id : n \in 1 .. Len(det_tracks)}

\* The ids a record names.
NamedIds(rec) ==
    IF rec.type = "AGLOMERACAO"
    THEN {rec.involved_tracks[j] : j \in 1 .. Len(rec.involved_tracks)}
    ELSE {rec.track_id}

\* C12: every record a detect call returns names only ids of tracks of that
\* call's input; an id that is only remembered in track_states is never named.
C12_RecordsNameInputTracks ==
    \A k \in 1 .. Len(frame_anomalies) : NamedIds(frame_anomalies[k]) \subseteq InputIds

\* C12 witness: the call returned records while track_states remembered a
\* stopped track that was not in the input.
C12_Witness ==
    /\ frame_anomalies # <<>>
    /\ \E id \in DOMAIN track_states \ InputIds :
          track_states[id].stopped_since # <<>>

\* The distance of a state record's current position from its initial one,
\* squared, in half-pixel units.
DistanceFromStart(state) == dist_sq(state.current_position, state.initial_position)

\* C14: while the state record of an id exists, from one detect call to the
\* next its max_distance never decreases and its initial_position never
\* changes, and after every call max_distance is at least the distance
\* between current_position and initial_position.
C14_MaxDistanceMonotone ==
    [][/\ \A id \in DOMAIN track_states' :
             track_states'[id].max_distance >= DistanceFromStart(track_states'[id])
       /\ \A id \in DOMAIN track_states \cap DOMAIN track_states' :
             /\ track_states'[id].max_distance >= track_states[id].max_distance
             /\ track_states'[id].initial_position = track_states[id].initial_position
      ]_vars

\* C14 witness: a track that went away from where it was first seen and came
\* back: its max_distance is more than its present distance.
C14_Witness ==
    \E id \in DOMAIN track_states :
        /\ DistanceFromStart(track_states[id]) = 0
        /\ track_states[id].max_distance > 0

\* The track with this id in a list of tracks.
TrackOf(trs, id) == trs[CHOOSE n \in 1 .. Len(trs) : trs[n].id = id]

\* C15: in a detect call with timestamp t, the state record of an id absent
\* from the input is kept as it is, with its velocity history, when
\* t - last_seen <= 5.0, and both are deleted when t - last_seen > 5.0; an id
\* that comes back before being purged goes on from the record it had before
\* the gap: same initial_position and first_seen, max_distance raised from
\* its old value, stopped_since kept while the track is still slow.
C15_LazyPurge ==
    [][\A id \in DOMAIN track_states :
          /\ (id \notin InputIds' /\ timestamp' - track_states[id].last_seen <= 5) =>
                /\ id \in DOMAIN track_states'
                /\ track_states'[id] = track_states[id]
                /\ id \in DOMAIN velocity_history'
                /\ velocity_history'[id] = velocity_history[id]
          /\ (id \notin InputIds' /\ timestamp' - track_states[id].last_seen > 5) =>
                /\ id \notin DOMAIN track_states'
                /\ id \notin DOMAIN velocity_history'
          /\ (id \in InputIds' /\ id \notin InputIds) =>
                /\ track_states'[id].initial_position = track_states[id].initial_position
                /\ track_states'[id].first_seen = track_states[id].first_seen
                /\ track_states'[id].max_distance =
                       Max(track_states[id].max_distance,
                           DistanceFromStart(track_states'[id]))
                /\ track_states'[id].stopped_since =
                       IF ~norm_below(velocity_of(TrackOf(det_tracks', id)), 2) THEN <<>>
                       ELSE IF track_states[id].stopped_since = <<>> THEN <<timestamp'>>
                       ELSE track_states[id].stopped_since
                /\ velocity_history'[id] =
                       Append(velocity_history[id], velocity_of(TrackOf(det_tracks', id)))
      ]_vars

\* C15 witness: track 1 was seen in the first frame, missing from the second,
\* 5 seconds later, and is back in the third with the record of the first.
C15_Witness ==
    /\ frame_number = 3
    /\ 1 \in InputIds
    /\ track_states[1].first_seen < track_states[1].last_seen
    /\ track_states[1].stopped_since = <<track_states[1].first_seen>>
    /\ Len(velocity_history[1]) = 2

\* C17: after every detect call the log is the log of before the call
\* followed by the list the call returned, in the same order; so no earlier
\* entry is removed, moved or changed and the log never gets shorter.
C17_LogAppendOnly ==
    [][/\ anomalies' = anomalies \o frame_anomalies'
       /\ Len(anomalies') >= Len(anomalies)
       /\ SubSeq(anomalies', 1, Len(anomalies)) = anomalies
      ]_vars

\* C17 witness: the last call returned records different from those the log
\* already held.
C17_Witness ==
    /\ frame_anomalies # <<>>
    /\ Len(anomalies) > Len(frame_anomalies)
    /\ anomalies[1] # frame_anomalies[1]
    /\ anomalies[Len(anomalies)] = frame_anomalies[Len(frame_anomalies)]

\* C19 as stated: PARADA_PROLONGADA is returned for a track only if its
\* label is PARADO and more than 5.0 seconds have passed since its
\* stopped_since was set, on the frame clock and on the wall clock alike; so
\* never in the call that sets stopped_since.
C19_AsStated ==
    \A k \in 1 .. Len(frame_anomalies) :
        frame_anomalies[k].type = "PARADA_PROLONGADA" =>
            LET id == frame_anomalies[k].track_id
            IN  /\ activity_get(det_activities, id) = "PARADO"
                /\ track_states[id].stopped_since # <<>>
                /\ timestamp - track_states[id].stopped_since[1] > 5
                /\ now - stopped_wall[id] > 5

\* Whether the n-th track of a list is slower than 2.0 pixels per frame.
Slow(trs, n) == NormSq(velocity_of(trs[n])) < 4 * 2 * 2

\* C20: after each detect call, for every track of its input, stopped_since
\* is present iff the track's speed in this call is below 2.0; it is set to
\* the timestamp of the call when the track is slow and the field was
\* absent, and it keeps its value when the track is slow and the field was
\* there.
C20_StoppedSinceEdgeTriggered ==
    [][\A n \in 1 .. Len(det_tracks') :
          LET id == det_tracks'[n].id
              had == /\ id \in DOMAIN track_states
                     /\ track_states[id].stopped_since # <<>>
          IN  /\ track_states'[id].stopped_since # <<>> <=> Slow(det_tracks', n)
              /\ (Slow(det_tracks', n) /\ ~had) =>
                    track_states'[id].stopped_since = <<timestamp'>>
              /\ (Slow(det_tracks', n) /\ had) =>
                    track_states'[id].stopped_since = track_states[id].stopped_since
      ]_vars

\* C20 witness: a track at exactly 2.0 pixels per frame, without
\* stopped_since, next to the record of a stop timed from an earlier call in
\* the log.
C20_Witness ==
    /\ frame_number = 3
    /\ Len(det_tracks) = 1
    /\ NormSq(velocity_of(det_tracks[1])) = 4 * 2 * 2
    /\ track_states[1].stopped_since = <<>>
    /\ track_states[1].first_seen < timestamp
    /\ \E k \in RecordsOf(anomalies, "PARADA_PROLONGADA", 1) :
          /\ anomalies[k].frame = 2
          /\ anomalies[k].timestamp > track_states[1].first_seen

(***************************************************************************)
(* The rule engine given one crowded frame                                 *)
(***************************************************************************)

\* Bound: the tracks of the frame.
MaxCrowd == 6

\* Where a track of the frame can be: a person 0, 60 or 120 pixels east of
\* the origin, or a bottle at the origin.  0 and 120 are farther apart than
\* crowding_distance, each is closer than that to 60.
CrowdSlots ==
    {[dx |-> dx, class_id |-> 0] : dx \in {0, 60, 120}}
    \cup {[dx |-> 0, class_id |-> 39]}

\* The frames: up to MaxCrowd still tracks, ids in list order, each in any
\* slot, so that every arrangement comes in every order.
CrowdFrames ==
    UNION {[1 .. n -> CrowdSlots] : n \in 0 .. MaxCrowd}

CrowdTracks(slots) ==
    [n \in 1 .. Len(slots) |->
        [id |-> n, bbox |-> ShiftX(BoxAt(<<0, 0>>), slots[n].dx),
         class_id |-> slots[n].class_id, velocity |-> <<0, 0>>]]

\* detect on the first frame of a video, every track labelled PARADO.
DetectCrowd ==
    /\ frame_number = 0
    /\ \E slots \in CrowdFrames :
          DetectCall(CrowdTracks(slots), [n \in 1 .. Len(slots) |-> "PARADO"],
                     1, timestamp, now)
    /\ UNCHANGED period
    /\ UNCHANGED <<trk_vars, iou_vars, cls_vars>>

InitCrowdSpec == InitTracker /\ InitIoU /\ InitClassifier /\ InitDetector

SpecCrowd == InitCrowdSpec /\ [][DetectCrowd]_vars

\* The positions of the person-class tracks of the last input.
Persons == {n \in 1 .. Len(det_tracks) : det_tracks[n].class_id = 0}

\* The distance between the centers of two tracks of the last input, squared,
\* in half-pixel units; 80 pixels squared is 4 * 80 * 80.
CenterDistSq(m, n) ==
    dist_sq(det_get_center(det_tracks[m].bbox), det_get_center(det_tracks[n].bbox))

\* Three persons of the last input, pairwise closer than 80 pixels, every
\* other person farther than 80 pixels from each of them.
IsolatedTriples ==
    {T \in SUBSET Persons :
        /\ Cardinality(T) = 3
        /\ \A m, n \in T : m # n => CenterDistSq(m, n) < 4 * 80 * 80
        /\ \A m \in T : \A n \in Persons \ T : CenterDistSq(m, n) > 4 * 80 * 80}

IdsOf(T) == {det_tracks[n].id : n \in T}

\* The positions of the AGLOMERACAO records in the list last returned.
CrowdRecords ==
    {k \in 1 .. Len(frame_anomalies) : frame_anomalies[k].type = "AGLOMERACAO"}

Involved(k) ==
    {frame_anomalies[k].involved_tracks[j] :
        j \in 1 .. Len(frame_anomalies[k].involved_tracks)}

\* C10 as stated: with three persons pairwise closer than 80px and every
\* other person farther than 80px from each of them, exactly one AGLOMERACAO
\* record is returned and it lists exactly the three ids.
C10_AsStated ==
    \A T \in IsolatedTriples :
        /\ Cardinality(CrowdRecords) = 1
        /\ \A k \in CrowdRecords :
              /\ Involved(k) = IdsOf(T)
              /\ Len(frame_anomalies[k].involved_tracks) = 3

\* C10 amended: with three persons pairwise closer than 80px and every other
\* person farther than 80px from each of them, exactly one of the returned
\* AGLOMERACAO records lists any of the three, it lists exactly the three ids
\* and nobody else, whatever the order of the input; the call may return
\* further records, for the crowds the other persons form.
C10_IsolatedTripleOneRecord ==
    \A T \in IsolatedTriples :
        /\ Cardinality({k \in CrowdRecords : Involved(k) \cap IdsOf(T) # {}}) = 1
        /\ \A k \in CrowdRecords :
              Involved(k) \cap IdsOf(T) # {} =>
                  /\ Involved(k) = IdsOf(T)
                  /\ Len(frame_anomalies[k].involved_tracks) = 3
                  /\ frame_anomalies[k].count = 3

\* C10 witness: three close persons that do not come first in the input, a
\* fourth person far away, and one record, listing the three.
C10_Witness ==
    /\ \E T \in IsolatedTriples :
          /\ 1 \notin T
          /\ Persons \ T # {}
          /\ \E k \in CrowdRecords : Involved(k) = IdsOf(T)
    /\ Cardinality(CrowdRecords) = 1

\* C34: among the AGLOMERACAO records one detect call returns no track id is
\* in two records; every record lists at least 3 ids, all different, all of
\* person-class tracks of the input, and its count is the number of ids
\* listed; and no record is returned when the input has fewer than 3 persons.
C34_CrowdRecordsDisjoint ==
    /\ \A k, l \in CrowdRecords : k # l => Involved(k) \cap Involved(l) = {}
    /\ \A k \in CrowdRecords :
          /\ Cardinality(Involved(k)) >= 3
          /\ Cardinality(Involved(k)) = Len(frame_anomalies[k].involved_tracks)
          /\ frame_anomalies[k].count = Len(frame_anomalies[k].involved_tracks)
          /\ Involved(k) \subseteq IdsOf(Persons)
    /\ Cardinality(Persons) < 3 => CrowdRecords = {}

\* Four persons within 80px of each other and a bottle: one record, listing
\* the four persons.
C34_Witness ==
    /\ Len(det_tracks) = 5
    /\ Cardinality(Persons) = 4
    /\ \A m, n \in Persons : CenterDistSq(m, n) < 4 * 80 * 80
    /\ Cardinality(CrowdRecords) = 1
    /\ \A k \in CrowdRecords : Involved(k) = IdsOf(Persons)

\* The position in the last input of the track with the given id.
PlaceOf(id) == CHOOSE n \in 1 .. Len(det_tracks) : det_tracks[n].id = id

\* The ids listed by the AGLOMERACAO records returned before the k-th record.
ListedBefore(k) == UNION {Involved(l) : l \in {l \in CrowdRecords : l < k}}

\* C35: in every AGLOMERACAO record the first id listed is the seed, and the
\* others are the persons in no earlier record of the call whose center is
\* less than 80px from the seed's, and only those: a person within 80px of
\* another member but not of the seed is left out, and two members may be
\* farther than 80px from each other.
C35_GroupAroundSeed ==
    \A k \in CrowdRecords :
        LET seed == frame_anomalies[k].involved_tracks[1]
        IN  /\ seed \notin ListedBefore(k)
            /\ Involved(k) \ {seed} =
                  {det_tracks[n].id : n \in
                      {n \in Persons :
                          /\ det_tracks[n].id # seed
                          /\ det_tracks[n].id \notin ListedBefore(k)
                          /\ CenterDistSq(n, PlaceOf(seed)) < 4 * 80 * 80}}

\* Persons at 0, 60 and 120px in this order: the first seeds no crowd, the
\* second seeds one that lists itself first and then the two others, which
\* are 120px from each other.
C35_Witness ==
    /\ Len(det_tracks) = 3
    /\ Persons = {1, 2, 3}
    /\ CenterDistSq(1, 3) > 4 * 80 * 80
    /\ Cardinality(CrowdRecords) = 1
    /\ \A k \in CrowdRecords : frame_anomalies[k].involved_tracks = <<2, 1, 3>>

\* The order of the input decides the groups.  Persons at 0, 0, 60, 120 and
\* 120px in this order give one record, of the first three.
C35_OrderSeedAtEdge ==
    /\ Len(det_tracks) = 5
    /\ Persons = 1 .. 5
    /\ CenterDistSq(1, 2) = 0
    /\ CenterDistSq(4, 5) = 0
    /\ CenterDistSq(1, 5) > 4 * 80 * 80
    /\ CenterDistSq(1, 3) > 0 /\ CenterDistSq(1, 3) < 4 * 80 * 80
    /\ CenterDistSq(3, 4) < 4 * 80 * 80
    /\ Cardinality(CrowdRecords) = 1
    /\ \A k \in CrowdRecords : Involved(k) = {1, 2, 3}

\* The same persons with the one at 60px first give one record, of all five.
C35_OrderSeedInMiddle ==
    /\ Len(det_tracks) = 5
    /\ Persons = 1 .. 5
    /\ CenterDistSq(2, 3) = 0
    /\ CenterDistSq(4, 5) = 0
    /\ CenterDistSq(2, 5) > 4 * 80 * 80
    /\ CenterDistSq(1, 3) > 0 /\ CenterDistSq(1, 3) < 4 * 80 * 80
    /\ CenterDistSq(1, 4) < 4 * 80 * 80
    /\ Cardinality(CrowdRecords) = 1
    /\ \A k \in CrowdRecords : Involved(k) = 1 .. 5

(***************************************************************************)
(* The pipeline of main.py on one walking person                           *)
(*                                                                         *)
(* analyze_video, lines 103-145: each frame goes through update, classify  *)
(* and detect, frame_number counts from 0 and timestamp is frame_number /  *)
(* fps.  One frame takes period seconds; the wall clock starts on the      *)
(* frame clock or 100 seconds ahead of it.                                 *)
(***************************************************************************)

\* Bound: the frames analysed.
MaxPipeFrames == 5

\* The person moves one pixel per frame, east, west, south or north.
PipeSteps == {<<1, 0>>, <<-1, 0>>, <<0, 1>>, <<0, -1>>}

ShiftBox(bbox, d) == <<bbox[1] + d[1], bbox[2] + d[2], bbox[3] + d[1], bbox[4] + d[2]>>

\* The box detected in the next frame: the first at the origin, the others
\* one step from the previous one.
NextBoxes ==
    IF last_dets = <<>> THEN {BoxAt(<<0, 0>>)}
    ELSE {ShiftBox(last_dets[1].bbox, d) : d \in PipeSteps}

PersonAt(bbox) == [bbox |-> bbox, class_id |-> 0, confidence |-> 90]

\* One turn of the loop of analyze_video: update on the detections, classify
\* and detect on the tracks update returned.
AnalyzeFrame ==
    /\ frame_number + 1 < MaxPipeFrames
    /\ \E bbox \in NextBoxes :
       \E r \in {update_assoc(tracks, next_id, <<PersonAt(bbox)>>)} :
          /\ UpdateEffect(<<PersonAt(bbox)>>, r)
          /\ ClassifyCall(ret')
          /\ DetectCall(cls_tracks', activities', frame_number + 1,
                        (frame_number + 1) * period, now + period)
    /\ UNCHANGED <<period, traj, walked, free_calls, updates>>
    /\ UNCHANGED iou_vars

\* No frame analysed yet; one second per frame.
InitPipelineSpec ==
    /\ InitTracker
    /\ InitIoU
    /\ InitClassifier
    /\ anomalies = <<>>
    /\ track_states = <<>>
    /\ velocity_history = <<>>
    /\ det_tracks = <<>>
    /\ det_activities = <<>>
    /\ frame_number = -1
    /\ timestamp = 0
    /\ now \in WallStarts
    /\ period = 1
    /\ frame_anomalies = <<>>
    /\ stopped_wall = <<>>

SpecPipeline == InitPipelineSpec /\ [][AnalyzeFrame]_vars

\* C11 as stated: with one person moving 1px per frame, update returns
\* nothing for frames 0 and 1 and the same single id from frame 2 on, and for
\* each frame from 2 on classify labels it CAMINHANDO and detect returns no
\* anomaly.
C11_AsStated ==
    /\ frame_number \in {0, 1} => ret = <<>>
    /\ frame_number >= 2 =>
          /\ Len(ret) = 1
          /\ ret[1].id = 1
          /\ activities[ret[1].id] = "CAMINHANDO"
          /\ frame_anomalies = <<>>

\* C18: classify and detect leave every field of every track given to them
\* as it was: the list as classify left it and the list as detect left it are
\* the list update returned, whose entries are the registry's records.
C18_TracksLeftUnchanged ==
    frame_number >= 0 =>
        /\ cls_tracks = ret
        /\ det_tracks = ret
        /\ \A n \in 1 .. Len(ret) :
              /\ ret[n].id \in DOMAIN tracks
              /\ tracks[ret[n].id] = ret[n]
        /\ DOMAIN tracks = DOMAIN nmatch

\* C18 witness: a frame in which classify labelled the track given to it
\* and detect recorded a state for it.
C18_Witness ==
    /\ frame_number >= 2
    /\ Len(ret) = 1
    /\ DOMAIN activities = {ret[1].id}
    /\ ret[1].id \in DOMAIN track_states
    /\ ret[1].velocity # <<0, 0>>
    /\ det_tracks = ret

(***************************************************************************)
(* The registry following one person for more frames than a history holds  *)
(***************************************************************************)

\* Bounds: the frames in which the person is detected, and the consecutive
\* frames in which it is missed.
MaxTrail == 32
MaxMiss == 2

\* update on the next frame of the trajectory: one person detection.
TrailStep ==
    /\ walked < MaxTrail
    /\ \E dets \in {<<PersonAt(BoxAt(TrajPos(traj, walked)))>>} :
          UpdateEffect(dets, update_assoc(tracks, next_id, dets))
    /\ walked' = walked + 1
    /\ UNCHANGED <<activity_history, position_history, cls_tracks, activities,
                   traj, free_calls, unit_run, updates>>
    /\ UNCHANGED <<iou_vars, det_vars>>

\* update on a frame in which the person is missed: no detection.
TrailMiss ==
    /\ 1 \in DOMAIN tracks
    /\ idle[1] < MaxMiss
    /\ UpdateEffect(<<>>, update_assoc(tracks, next_id, <<>>))
    /\ UNCHANGED updates
    /\ UNCHANGED <<iou_vars, cls_vars, det_vars>>

InitTrailSpec ==
    /\ InitTracker
    /\ InitIoU
    /\ InitDetector
    /\ activity_history = <<>>
    /\ position_history = <<>>
    /\ cls_tracks = <<>>
    /\ activities = <<>>
    /\ traj \in Trajectories
    /\ walked = 0
    /\ free_calls = 0
    /\ unit_run = <<>>

NextTrail == TrailStep \/ TrailMiss

SpecTrail == InitTrailSpec /\ [][NextTrail]_vars

\* The last n elements of a sequence.
LastOf(sq, n) == SubSeq(sq, Len(sq) - n + 1, Len(sq))

\* C13: after any sequence of update calls the history of every track holds
\* at most 30 centers, and it is the last min(hits, 30) of the centers given
\* to the track, the creation center first, in their order of arrival.
C13_HistoryIsRecentCenters ==
    \A k \in DOMAIN tracks :
        /\ Len(tracks[k].history) <= 30
        /\ Len(trail[k]) = tracks[k].hits
        /\ Len(tracks[k].history) = Min(tracks[k].hits, 30)
        /\ tracks[k].history = LastOf(trail[k], Min(tracks[k].hits, 30))

\* C13 witness: a track matched more than 30 times, whose history no longer
\* starts with its creation center.
C13_Witness ==
    \E k \in DOMAIN tracks :
        /\ tracks[k].hits > 31
        /\ Len(tracks[k].history) = 30
        /\ tracks[k].history[1] # trail[k][1]
        /\ tracks[k].history[30] = trail[k][tracks[k].hits]


(***************************************************************************)
(* Association scene: boxes that overlap, detections of either class       *)
(***************************************************************************)

\* The update calls of a run.
MaxUpdates == 3

\* Three boxes of one size on a line.  BoxA and BoxB share 3/5 of their union
\* and BoxB and BoxC 1/3, both above the matching threshold; BoxA and BoxC
\* share 1/7, below it.
BoxA == <<0, 0, 4, 4>>
BoxB == <<1, 0, 5, 4>>
BoxC == <<3, 0, 7, 4>>

\* Detections as detect_and_track builds them (lines 222-227).
AssocDets ==
    {[bbox |-> BoxA, class_id |-> 0, confidence |-> 90],
     [bbox |-> BoxB, class_id |-> 39, confidence |-> 70],
     [bbox |-> BoxC, class_id |-> 0, confidence |-> 80]}

\* The detection lists of a frame: none, one or two detections, the same
\* detection twice included.
AssocLists == {<<>>} \cup {<<d>> : d \in AssocDets}
                     \cup {<<d, e>> : d \in AssocDets, e \in AssocDets}

\* ObjectTracker.update(detections) on the association scene.
AssocUpdate ==
    /\ updates < MaxUpdates
    /\ \E detections \in AssocLists :
          UpdateEffect(detections, update_assoc(tracks, next_id, detections))
    /\ updates' = updates + 1
    /\ UNCHANGED <<iou_vars, cls_vars, det_vars>>

InitAssocSpec == InitTracker /\ InitIoU /\ InitClassifier /\ InitDetector

NextAssoc == AssocUpdate

SpecAssoc == InitAssocSpec /\ [][NextAssoc]_vars

\* The detection the call just made matched to track k, and the tracks the
\* call matched.
MatchedDet(k) == last_dets[(CHOOSE p \in last_pairs : p[2] = k)[1]]
MatchedIds == {p[2] : p \in last_pairs}

\* C21: after an update call in which a track is matched, the track's class_id
\* and confidence are those of the matched detection, also when the detection
\* is of another class than the track was.
C21_AsStated ==
    \A k \in MatchedIds \cap DOMAIN tracks :
        /\ tracks[k].class_id = MatchedDet(k).class_id
        /\ tracks[k].confidence = MatchedDet(k).confidence

\* C22: the pairs accepted by one update call are a one-to-one partial
\* matching of the call's detections with the tracks that existed before the
\* call, and every accepted pair has IoU > 0.3 with the box the track held
\* before the call.
C22_OneToOneMatching ==
    [][/\ \A p \in last_pairs' :
             /\ p[1] \in 1 .. Len(last_dets')
             /\ p[2] \in DOMAIN tracks
             /\ cost_below_threshold(
                    _calculate_iou(last_dets'[p[1]].bbox, tracks[p[2]].bbox))
       /\ \A p, q \in last_pairs' : (p[1] = q[1]) <=> (p[2] = q[2])
      ]_vars

\* Two detections of the same box met one track: one was matched, the other
\* made a track of its own.
C22_Witness ==
    /\ Len(last_dets) = 2
    /\ last_dets[1].bbox = last_dets[2].bbox
    /\ Cardinality(last_pairs) = 1
    /\ \E k \in DOMAIN tracks : idle[k] = 0 /\ nmatch[k] = 0 /\ k \notin MatchedIds
    /\ \E k \in MatchedIds : tracks[k].bbox = last_dets[1].bbox

\* The IoU of detection i of the call being made with the box track k holds
\* before the call, and the order of the sorted list on two
\* <<detection index, track id>> pairs: higher IoU first, then lower
\* detection index, then lower track id (the registry lists its tracks by
\* ascending id).
PairIoU(p) == _calculate_iou(last_dets'[p[1]].bbox, tracks[p[2]].bbox)
Earlier(p, q) ==
    \/ cost_less(PairIoU(p), PairIoU(q))
    \/ /\ ~cost_less(PairIoU(q), PairIoU(p))
       /\ \/ p[1] < q[1]
          \/ p[1] = q[1] /\ p[2] < q[2]
Candidates == (1 .. Len(last_dets')) \X DOMAIN tracks

\* C23: the pair that comes first in the order (cost ascending, then detection
\* index, then track index) is accepted when its cost is below 0.7, and a pair
\* with cost below 0.7 is left unaccepted only when an accepted pair earlier
\* in the order holds its detection or its track.
C23_GreedyAscendingCost ==
    [][/\ \A p \in Candidates :
             (/\ \A q \in Candidates \ {p} : Earlier(p, q)
              /\ cost_below_threshold(PairIoU(p)))
             => p \in last_pairs'
       /\ \A p \in Candidates :
             (cost_below_threshold(PairIoU(p)) /\ p \notin last_pairs')
             => \E a \in last_pairs' :
                   /\ a[1] = p[1] \/ a[2] = p[2]
                   /\ Earlier(a, p)
      ]_vars

\* One detection met two tracks holding the same box: the track of lower id
\* took it (its previous center is the center the other track still has).
C23_Witness ==
    /\ Len(last_dets) = 1
    /\ \E k \in MatchedIds : \E j \in DOMAIN tracks :
          /\ j > k
          /\ j \notin MatchedIds
          /\ Len(trail[k]) >= 2
          /\ trail[k][Len(trail[k]) - 1] = _bbox_center(tracks[j].bbox)
          /\ trail[k][Len(trail[k])] # trail[k][Len(trail[k]) - 1]

\* The detections of the call being made that no accepted pair holds, in
\* list order.
UnmatchedDets ==
    Ascending((1 .. Len(last_dets')) \ {p[1] : p \in last_pairs'})

\* C24: in an update call every detection either is matched to exactly one
\* track that existed before the call, which takes its box, or makes exactly
\* one new track with the detection's bbox, class_id and confidence, age 0,
\* hits 1, zero velocity and a one-element history; nothing else is created,
\* and on an empty registry every detection makes a track.
C24_UpdateOrCreate ==
    [][/\ \A i \in 1 .. Len(last_dets') :
             Cardinality({p \in last_pairs' : p[1] = i}) <= 1
       /\ \A p \in last_pairs' :
             /\ p[2] \in DOMAIN tracks
             /\ tracks'[p[2]].bbox = last_dets'[p[1]].bbox
             /\ tracks'[p[2]].hits = tracks[p[2]].hits + 1
       /\ DOMAIN tracks' \ DOMAIN tracks = next_id .. next_id' - 1
       /\ next_id' - next_id = Len(UnmatchedDets)
       /\ \A n \in 1 .. Len(UnmatchedDets) :
             LET d == last_dets'[UnmatchedDets[n]]
             IN  tracks'[next_id + n - 1] =
                    [id |-> next_id + n - 1,
                     bbox |-> d.bbox,
                     class_id |-> d.class_id,
                     confidence |-> d.confidence,
                     history |-> <<<<d.bbox[1] + d.bbox[3], d.bbox[2] + d.bbox[4]>>>>,
                     age |-> 0,
                     hits |-> 1,
                     velocity |-> <<0, 0>>]
       /\ DOMAIN tracks = {} => last_pairs' = {}
      ]_vars

\* The first call was given the same detection twice and made two tracks.
C24_Witness ==
    /\ updates = 1
    /\ Len(last_dets) = 2
    /\ last_dets[1] = last_dets[2]
    /\ DOMAIN tracks = {1, 2}
    /\ tracks[1].bbox = tracks[2].bbox

\* The center of a box in the units of the model's velocities (twice the
\* pixel coordinates).
BoxCenter(b) == <<b[1] + b[3], b[2] + b[4]>>

\* C25: a track's velocity is zero when it is created and stays zero until
\* its first match; a call that matches the track sets it to the center of the
\* matched detection's box minus the center of the box the track held before
\* the call, however many calls left the track unmatched in between; a call
\* that does not match the track leaves its velocity alone.
C25_VelocityOneStep ==
    [][\A k \in DOMAIN tracks' :
          /\ nmatch'[k] = 0 => tracks'[k].velocity = <<0, 0>>
          /\ (k \in DOMAIN tracks /\ \E p \in last_pairs' : p[2] = k) =>
                LET d == last_dets'[(CHOOSE p \in last_pairs' : p[2] = k)[1]]
                IN  tracks'[k].velocity =
                       <<BoxCenter(d.bbox)[1] - BoxCenter(tracks[k].bbox)[1],
                         BoxCenter(d.bbox)[2] - BoxCenter(tracks[k].bbox)[2]>>
          /\ (k \in DOMAIN tracks /\ ~\E p \in last_pairs' : p[2] = k) =>
                tracks'[k].velocity = tracks[k].velocity
      ]_vars

\* Track 1 was made by the first call, left unmatched by the second (which
\* made track 3) and matched by the third to a detection of another box.
C25_Witness ==
    /\ updates = 3
    /\ 1 \in MatchedIds
    /\ nmatch[1] = 1
    /\ 3 \in DOMAIN tracks
    /\ idle[3] = 1
    /\ nmatch[3] = 0
    /\ tracks[1].velocity # <<0, 0>>

\* C26: after every update call each track's age is the number of update
\* calls made since the call that created or last matched it (0 when this
\* call did), and its hits is 1 plus the number of calls that matched it; a
\* call that matches the track raises hits by exactly 1 and any other call
\* leaves hits alone.
C26_AgeAndHitsCount ==
    [][\A k \in DOMAIN tracks' :
          /\ tracks'[k].age = idle'[k]
          /\ tracks'[k].hits = 1 + nmatch'[k]
          /\ k \in DOMAIN tracks =>
                tracks'[k].hits =
                    IF \E p \in last_pairs' : p[2] = k
                    THEN tracks[k].hits + 1 ELSE tracks[k].hits
          /\ (k \notin DOMAIN tracks \/ \E p \in last_pairs' : p[2] = k) =>
                tracks'[k].age = 0
      ]_vars

\* A track that was matched once and then left unmatched by the next call,
\* while another track was matched in that call.
C26_Witness ==
    \E k \in DOMAIN tracks :
        /\ nmatch[k] = 1
        /\ idle[k] = 1
        /\ tracks[k].age = 1
        /\ tracks[k].hits = 2
        /\ MatchedIds # {}

(***************************************************************************)
(* The detector fed one person that stands still and darts now and then    *)
(***************************************************************************)

\* Bounds: frames of a run, and frames in which the person moves fast.
MaxSuddenFrames == 12
MaxFast == 2

\* The person's velocity in a fast frame: 10.0 or 12.0 pixels per frame.  In
\* every other frame it is zero.
FastVelocities == {<<20, 0>>, <<24, 0>>}

\* The fast frames seen so far; each has put one VELOCIDADE_ANORMAL on the log.
FastFrames ==
    Cardinality({k \in 1 .. Len(anomalies) : anomalies[k].type = "VELOCIDADE_ANORMAL"})

\* A frame of the scene: track 1 in one place, with the label the classifier
\* gives its speed.
SuddenScenes ==
    {[tracks |-> <<Walker(<<0, 0>>, <<0, 0>>)>>, activities |-> (1 :> "PARADO")]}
    \cup (IF FastFrames < MaxFast
          THEN {[tracks |-> <<Walker(<<0, 0>>, v)>>, activities |-> (1 :> "CORRENDO")] :
                   v \in FastVelocities}
          ELSE {})

\* detect on the next frame of the scene, one frame per second on both
\* clocks.
DetectSudden ==
    /\ frame_number < MaxSuddenFrames
    /\ \E sc \in SuddenScenes :
          DetectCall(sc.tracks, sc.activities, frame_number + 1,
                     timestamp + period, now + period)
    /\ UNCHANGED period
    /\ UNCHANGED <<trk_vars, iou_vars, cls_vars>>

InitSuddenSpec ==
    /\ InitTracker
    /\ InitIoU
    /\ InitClassifier
    /\ anomalies = <<>>
    /\ track_states = <<>>
    /\ velocity_history = <<>>
    /\ det_tracks = <<>>
    /\ det_activities = <<>>
    /\ frame_number = 0
    /\ timestamp = 0
    /\ now = 0
    /\ period = 1
    /\ frame_anomalies = <<>>
    /\ stopped_wall = <<>>

SpecSudden == InitSuddenSpec /\ [][DetectSudden]_vars

\* Two consecutive samples of the velocity history of track id differ by a
\* vector of norm above 10.0.
JumpInHistory(id) ==
    \E i \in 1 .. Len(velocity_history[id]) - 1 :
        LET v == velocity_history[id][i]
            w == velocity_history[id][i + 1]
        IN  (w[1] - v[1]) * (w[1] - v[1]) + (w[2] - v[2]) * (w[2] - v[2])
               > 4 * 10 * 10

\* C30: a detect call returns MOVIMENTO_SUBITO for a track of its input iff
\* the track's velocity history, which after the call ends with this call's
\* velocity and holds at most 10 samples, holds at least 3 samples and has
\* two consecutive samples that differ by a vector of norm above 10.0; with
\* 1 or 2 samples it is never returned.
C30_SuddenMovement ==
    \A n \in 1 .. Len(det_tracks) :
        LET t == det_tracks[n]
        IN  /\ t.id \in DOMAIN velocity_history
            /\ Len(velocity_history[t.id]) <= 10
            /\ velocity_history[t.id][Len(velocity_history[t.id])] = velocity_of(t)
            /\ RecordsOf(frame_anomalies, "MOVIMENTO_SUBITO", t.id) # {}
                  <=> (Len(velocity_history[t.id]) >= 3 /\ JumpInHistory(t.id))

\* The history holds 3 samples, the last two 12.0 apart, and the call
\* returned MOVIMENTO_SUBITO; the call before, with 2 samples, did not.
C30_Witness ==
    /\ frame_number = 3
    /\ velocity_history[1] = << <<24, 0>>, <<0, 0>>, <<0, 0>> >>
    /\ RecordsOf(frame_anomalies, "MOVIMENTO_SUBITO", 1) # {}
    /\ \A k \in RecordsOf(anomalies, "MOVIMENTO_SUBITO", 1) :
          k > Len(anomalies) - Len(frame_anomalies)

(***************************************************************************)
(* The detector fed one track that roams along a line                      *)
(***************************************************************************)

\* Bound: frames of a run.
MaxRoamFrames == 4

\* Where the track can be, in pixels east of the corner of BoxAt.
RoamOffsets == {0, 40, 50, 100, 120}

\* A frame of the scene: track 1 still at one of the offsets, labelled PARADO;
\* or at offset 0 as a person without a velocity key, as a person at speed
\* 8.0 labelled CORRENDO, or as a bottle at speed 9.0 labelled PARADO.
RoamScenes ==
    {[tracks |-> <<Walker(<<dx, 0>>, <<0, 0>>)>>, activities |-> (1 :> "PARADO")] :
        dx \in RoamOffsets}
    \cup {[tracks |-> <<Walker(<<0, 0>>, <<>>)>>, activities |-> (1 :> "PARADO")],
          [tracks |-> <<Walker(<<0, 0>>, <<16, 0>>)>>, activities |-> (1 :> "CORRENDO")],
          [tracks |-> <<[id |-> 1, bbox |-> BoxAt(<<0, 0>>), class_id |-> 39,
                         velocity |-> <<18, 0>>]>>,
           activities |-> (1 :> "PARADO")]}

\* detect on the next frame of the scene, one frame per second on both
\* clocks.
DetectRoam ==
    /\ frame_number < MaxRoamFrames
    /\ \E sc \in RoamScenes :
          DetectCall(sc.tracks, sc.activities, frame_number + 1,
                     timestamp + period, now + period)
    /\ UNCHANGED period
    /\ UNCHANGED <<trk_vars, iou_vars, cls_vars>>

SpecRoam == InitSuddenSpec /\ [][DetectRoam]_vars

\* C31: a detect call returns VELOCIDADE_ANORMAL for a track of its input iff
\* the norm of the track's velocity, zero when the track has none, is above
\* 8.0, whatever the track's class, label and history, the first call that
\* sees the track included.
C31_HighSpeed ==
    \A n \in 1 .. Len(det_tracks) :
        LET t == det_tracks[n]
        IN  RecordsOf(frame_anomalies, "VELOCIDADE_ANORMAL", t.id) # {}
               <=> SpeedSq4(t) > 4 * 8 * 8

\* The first call of a run saw a bottle labelled PARADO at speed 9.0 and
\* returned VELOCIDADE_ANORMAL for it.
C31_Witness ==
    /\ frame_number = 1
    /\ Len(det_tracks) = 1
    /\ det_tracks[1].class_id = 39
    /\ det_tracks[1].velocity = <<18, 0>>
    /\ det_activities[1] = "PARADO"
    /\ RecordsOf(frame_anomalies, "VELOCIDADE_ANORMAL", 1) # {}

\* Four times the square of the distance in pixels between the center of box
\* b and the point p (p in the model's doubled coordinates).
GapSq4(b, p) ==
    (b[1] + b[3] - p[1]) * (b[1] + b[3] - p[1])
        + (b[2] + b[4] - p[2]) * (b[2] + b[4] - p[2])

\* C32: a detect call returns MOVIMENTO_REVERSO for a track of its input iff
\* the track's max_distance from its initial_position is above 100px and the
\* track is now less than 50px from its initial_position; so never for a
\* track that has not been more than 100px away, and in every call in which
\* a track that has been stays within 50px.
C32_ReverseMovement ==
    \A n \in 1 .. Len(det_tracks) :
        LET t == det_tracks[n]
        IN  /\ t.id \in DOMAIN track_states
            /\ RecordsOf(frame_anomalies, "MOVIMENTO_REVERSO", t.id) # {}
                  <=> /\ track_states[t.id].max_distance > 4 * 100 * 100
                      /\ GapSq4(t.bbox, track_states[t.id].initial_position)
                            < 4 * 50 * 50

\* The track went 120px from where it was first seen and has now been back
\* within 50px for two calls, each of which returned MOVIMENTO_REVERSO.
C32_Witness ==
    /\ frame_number = 4
    /\ RecordsOf(frame_anomalies, "MOVIMENTO_REVERSO", 1) # {}
    /\ Cardinality(RecordsOf(anomalies, "MOVIMENTO_REVERSO", 1)) = 2
    /\ track_states[1].max_distance = 4 * 120 * 120

\* C33 as stated: OBJETO_ABANDONADO is returned for a track only if the track
\* is not a person, its label is PARADO, and more than 10.0 seconds have
\* passed since its stopped_since was set, on the frame clock and on the wall
\* clock alike; never for a person, never for an object still for 10.0
\* seconds or less.
C33_AsStated ==
    \A k \in 1 .. Len(frame_anomalies) :
        frame_anomalies[k].type = "OBJETO_ABANDONADO" =>
            LET id == frame_anomalies[k].track_id
            IN  /\ \A n \in 1 .. Len(det_tracks) :
                      det_tracks[n].id = id => det_tracks[n].class_id # 0
                /\ activity_get(det_activities, id) = "PARADO"
                /\ track_states[id].stopped_since # <<>>
                /\ timestamp - track_states[id].stopped_since[1] > 10
                /\ now - stopped_wall[id] > 10

\* C37: whenever a detect call returns an OBJETO_ABANDONADO record for a
\* track, the list it returns holds a PARADA_PROLONGADA record for the same
\* track at an earlier place.
C37_AbandonedAfterProlonged ==
    \A k \in 1 .. Len(frame_anomalies) :
        frame_anomalies[k].type = "OBJETO_ABANDONADO" =>
            \E j \in 1 .. k - 1 :
                /\ frame_anomalies[j].type = "PARADA_PROLONGADA"
                /\ frame_anomalies[j].track_id = frame_anomalies[k].track_id

\* Both clocks read the same, the bottle has been still for more than 10
\* seconds on them, and the call returned OBJETO_ABANDONADO for it.
C37_Witness ==
    /\ now = timestamp
    /\ \E k \in 1 .. Len(frame_anomalies) :
          /\ frame_anomalies[k].type = "OBJETO_ABANDONADO"
          /\ frame_anomalies[k].track_id = 2
    /\ timestamp - track_states[2].stopped_since[1] > 10

(***************************************************************************)
(* One person that is seen for a few frames and then vanishes              *)
(***************************************************************************)

\* Bound: the detections the person is seen in.
MaxSeen == 4

\* update on a frame that shows the person: first at the origin, later one
\* pixel from where track 1 has it.
VanishStep ==
    /\ \/ next_id = 1
       \/ 1 \in DOMAIN tracks /\ tracks[1].hits < MaxSeen
    /\ \E bbox \in (IF next_id = 1 THEN {BoxAt(<<0, 0>>)}
                    ELSE {ShiftBox(tracks[1].bbox, d) : d \in PipeSteps}) :
          UpdateEffect(<<PersonAt(bbox)>>,
                       update_assoc(tracks, next_id, <<PersonAt(bbox)>>))
    /\ UNCHANGED updates
    /\ UNCHANGED <<iou_vars, cls_vars, det_vars>>

\* update on a frame that does not show the person: no detection.
VanishMiss ==
    /\ 1 \in DOMAIN tracks
    /\ UpdateEffect(<<>>, update_assoc(tracks, next_id, <<>>))
    /\ UNCHANGED updates
    /\ UNCHANGED <<iou_vars, cls_vars, det_vars>>

InitVanishSpec == InitTracker /\ InitIoU /\ InitClassifier /\ InitDetector

NextVanish == VanishStep \/ VanishMiss

SpecVanish == InitVanishSpec /\ [][NextVanish]_vars

\* C36: a track that an update call returned is returned by the next call
\* too unless that call deletes it, which happens only in the 31st call in a
\* row that leaves it unmatched; and a call that leaves it unmatched returns
\* it with the bbox and the velocity it was returned with before, so with the
\* velocity of its last match.
C36_ReturnedUntilDeleted ==
    [][\A n \in 1 .. Len(ret) :
          LET k == ret[n].id
              unmatched == ~\E p \in last_pairs' : p[2] = k
          IN  /\ k \in DOMAIN tracks' => \E m \in 1 .. Len(ret') : ret'[m].id = k
              /\ k \notin DOMAIN tracks' =>
                    /\ unmatched
                    /\ ret[n].age = 30
                    /\ \A m \in 1 .. Len(ret') : ret'[m].id # k
              /\ (unmatched /\ k \in DOMAIN tracks') =>
                    \E m \in 1 .. Len(ret') :
                        /\ ret'[m].id = k
                        /\ ret'[m].bbox = ret[n].bbox
                        /\ ret'[m].velocity = ret[n].velocity
                        /\ ret'[m].age = ret[n].age + 1
      ]_vars

\* The person was last seen 30 calls ago, moving, and the call just made
\* still returned its track with that velocity.
C36_Witness ==
    /\ Len(ret) = 1
    /\ ret[1].id = 1
    /\ idle[1] = 30
    /\ ret[1].age = 30
    /\ ret[1].velocity # <<0, 0>>
    /\ last_dets = <<>>

(***************************************************************************)
(* classify and detect on the same tracks, as analyze_video calls them     *)
(***************************************************************************)

\* Bound: arbitrary frames after the walk.
MaxJudged == 2

\* An arbitrary frame: track 1 where the walk left it, at speed 0, 8.0 or
\* 9.0, as a person alone, as a person with a still person 50px away, or as a
\* bottle alone.
JudgedFrames(bbox) ==
    LET speeds == {<<0, 0>>, <<16, 0>>, <<18, 0>>}
        other == [id |-> 2, bbox |-> ShiftX(bbox, 50), class_id |-> 0,
                  velocity |-> <<0, 0>>]
    IN  {<<[id |-> 1, bbox |-> bbox, class_id |-> c, velocity |-> v]>> :
            c \in {0, 39}, v \in speeds}
        \cup {<<[id |-> 1, bbox |-> bbox, class_id |-> 0, velocity |-> v], other>> :
                v \in speeds}

\* Lines 114-119 of analyze_video: classify on the tracks, then detect on the
\* same tracks with the activities classify returned; one frame per second
\* on both clocks.
JudgeCall(trs) ==
    /\ ClassifyCall(trs)
    /\ DetectCall(cls_tracks', activities', frame_number + 1,
                  timestamp + period, now + period)
    /\ UNCHANGED period
    /\ UNCHANGED <<trk_vars, iou_vars>>

\* The next frame of the walk.
JudgeWalk ==
    /\ walked < MaxWalk
    /\ free_calls = 0
    /\ JudgeCall(WalkFrame(traj, walked + 1))
    /\ walked' = walked + 1
    /\ UNCHANGED <<traj, free_calls>>

\* An arbitrary frame.
JudgeFree ==
    /\ free_calls < MaxJudged
    /\ \E trs \in JudgedFrames(BoxAt(TrajPos(traj, walked))) : JudgeCall(trs)
    /\ free_calls' = free_calls + 1
    /\ UNCHANGED <<traj, walked>>

InitJudgeSpec ==
    /\ InitTracker
    /\ InitIoU
    /\ activity_history = <<>>
    /\ position_history = <<>>
    /\ cls_tracks = <<>>
    /\ activities = <<>>
    /\ traj \in Trajectories
    /\ walked = 0
    /\ free_calls = 0
    /\ unit_run = <<>>
    /\ anomalies = <<>>
    /\ track_states = <<>>
    /\ velocity_history = <<>>
    /\ det_tracks = <<>>
    /\ det_activities = <<>>
    /\ frame_number = 0
    /\ timestamp = 0
    /\ now = 0
    /\ period = 1
    /\ frame_anomalies = <<>>
    /\ stopped_wall = <<>>

NextJudge == JudgeWalk \/ JudgeFree

SpecJudge == InitJudgeSpec /\ [][NextJudge]_vars

\* C38: when detect is given the tracks and the activities of the classify
\* call of the same frame, a track that gets VELOCIDADE_ANORMAL gets neither
\* PARADA_PROLONGADA nor OBJETO_ABANDONADO in that frame, and its label is
\* CORRENDO, INTERAGINDO or COMPORTAMENTO_ERRATICO.
C38_FastIsNeverStopped ==
    \A n \in 1 .. Len(det_tracks) :
        LET id == det_tracks[n].id
        IN  RecordsOf(frame_anomalies, "VELOCIDADE_ANORMAL", id) # {} =>
               /\ RecordsOf(frame_anomalies, "PARADA_PROLONGADA", id) = {}
               /\ RecordsOf(frame_anomalies, "OBJETO_ABANDONADO", id) = {}
               /\ det_activities[id] \in
                     {"CORRENDO", "INTERAGINDO", "COMPORTAMENTO_ERRATICO"}

\* A bottle that stood still for more than 10 seconds and now moves at 9.0:
\* VELOCIDADE_ANORMAL, labelled CORRENDO, after a frame that returned
\* OBJETO_ABANDONADO for it.
C38_Witness ==
    /\ free_calls = 2
    /\ det_tracks[1].class_id = 39
    /\ det_activities[1] = "CORRENDO"
    /\ RecordsOf(frame_anomalies, "VELOCIDADE_ANORMAL", 1) # {}
    /\ RecordsOf(anomalies, "OBJETO_ABANDONADO", 1) # {}

(***************************************************************************)
(* The classifier fed a person that steps east or west at will             *)
(***************************************************************************)

\* Bound: frames of a run.
MaxZig == 13

\* The person moves one pixel per frame, east or west.
ZigSteps == {<<1, 0>>, <<-1, 0>>}

\* classify on the next frame: track 1 alone, one step from where the last
\* frame had it, its velocity that step.
ZigStep ==
    /\ walked < MaxZig
    /\ \E d \in ZigSteps :
          ClassifyCall(<<[id |-> 1,
                          bbox |-> IF walked = 0 THEN BoxAt(d)
                                   ELSE ShiftBox(cls_tracks[1].bbox, d),
                          class_id |-> 0,
                          velocity |-> <<2 * d[1], 2 * d[2]>>]>>)
    /\ walked' = walked + 1
    /\ UNCHANGED <<traj, free_calls>>
    /\ UNCHANGED <<trk_vars, iou_vars, det_vars>>

InitZigSpec == InitTracker /\ InitIoU /\ InitClassifier /\ InitDetector

SpecZig == InitZigSpec /\ [][ZigStep]_vars

\* C39: a track with fewer than 13 samples in the classifier's position
\* history, so seen in fewer than 13 classify calls, is not labelled
\* COMPORTAMENTO_ERRATICO, now or before, whatever its path; and with exactly
\* 10 samples the erratic check compares no windows.
C39_NoErraticBefore13 ==
    \A id \in DOMAIN position_history :
        /\ Len(position_history[id]) < 13 =>
              /\ id \in DOMAIN activities => activities[id] # "COMPORTAMENTO_ERRATICO"
              /\ \A n \in 1 .. Len(activity_history[id]) :
                    activity_history[id][n] # "COMPORTAMENTO_ERRATICO"
        /\ Len(position_history[id]) = 10 =>
              compared_offsets(position_history[id]) = {}

\* Twelve samples of a path whose two compared window pairs both turn, and
\* the label is PARADO.
C39_Witness ==
    /\ walked = 12
    /\ Len(position_history[1]) = 12
    /\ TurningPairs(position_history[1]) = 2
    /\ activities[1] = "PARADO"

\* Samples i and i + 1 of a velocity history differ by a vector of norm above
\* 10.0.
JumpAt(velocities, i) ==
    (velocities[i + 1][1] - velocities[i][1]) * (velocities[i + 1][1] - velocities[i][1])
        + (velocities[i + 1][2] - velocities[i][2]) * (velocities[i + 1][2] - velocities[i][2])
        > 4 * 10 * 10

\* The pairs of consecutive samples of a history that are still in it after
\* one more sample is appended: all of them, or all but the first when the
\* history is full and its oldest sample is evicted.
SurvivingPairs(velocities) ==
    {i \in (IF Len(velocities) = 10 THEN 2 ELSE 1) .. Len(velocities) - 1 :
        JumpAt(velocities, i)}

\* C40: once MOVIMENTO_SUBITO has been returned for a track, every later
\* detect call whose input holds the track returns it again as long as a pair
\* of consecutive samples more than 10.0 apart stays among the track's last
\* 10 velocity samples, whatever the velocities since; and when a call stops
\* returning it for a track whose state is kept, no such pair is left: the
\* earlier sample of the last one was evicted.
C40_SuddenMovementPersists ==
    [][\A n \in 1 .. Len(det_tracks') :
          LET id == det_tracks'[n].id
              again == RecordsOf(frame_anomalies', "MOVIMENTO_SUBITO", id) # {}
          IN  /\ (/\ RecordsOf(anomalies, "MOVIMENTO_SUBITO", id) # {}
                  /\ id \in DOMAIN velocity_history
                  /\ SurvivingPairs(velocity_history[id]) # {}) => again
              /\ (/\ RecordsOf(frame_anomalies, "MOVIMENTO_SUBITO", id) # {}
                  /\ ~again) =>
                    /\ id \in DOMAIN velocity_history
                    /\ SurvivingPairs(velocity_history[id]) = {}
                    /\ Len(velocity_history[id]) = 10
                    /\ JumpAt(velocity_history[id], 1)
      ]_vars

\* The track darted in its second frame and has stood still for eight frames
\* since; the call still returned MOVIMENTO_SUBITO.
C40_Witness ==
    /\ frame_number = 10
    /\ velocity_history[1] =
          << <<0, 0>>, <<24, 0>>, <<0, 0>>, <<0, 0>>, <<0, 0>>,
             <<0, 0>>, <<0, 0>>, <<0, 0>>, <<0, 0>>, <<0, 0>> >>
    /\ RecordsOf(frame_anomalies, "MOVIMENTO_SUBITO", 1) # {}
    /\ Cardinality(RecordsOf(anomalies, "MOVIMENTO_SUBITO", 1)) = 8

====
